---- MODULE Spec2Model ----
(***************************************************************************)
(* A model of cinecanvas2ass: the CineCanvas value types and XML tree      *)
(* builder (src/cinecanvas/parser.py) and the ASS conversion engine        *)
(* (src/main.py).                                                          *)
(*                                                                         *)
(* Conventions.                                                            *)
(*  - A Python str is a sequence of one-character strings; the members of  *)
(*    the str enums (TextEffect, TextAlignH, ...) are TLA+ strings.        *)
(*  - An optional value is a sequence: <<>> is None, <<v>> is the value v. *)
(*  - A call that may raise returns [ok |-> TRUE, val |-> v] or            *)
(*    [ok |-> FALSE, err |-> <exception class>].                           *)
(*  - A float that the code only compares, copies or scales is kept in     *)
(*    hundredths (1.0 is 100).                                             *)
(***************************************************************************)
EXTENDS Integers, Sequences, FiniteSets, TLC

VARIABLES
    timing_value,   \* CineTiming.from_xml: the argument
    timing_result,  \* CineTiming.from_xml: what the call gave
    hex_data,       \* Color.from_hex: the argument
    color_result,   \* Color.from_hex: what the call gave
    base_font,      \* maybe_merge_font: first argument (local context)
    root_font,      \* maybe_merge_font: second argument (inherited context)
    merge_result,   \* maybe_merge_font: what the call gave
    parent_result,  \* FontOverride.with_parent(root_font): what the call gave
    xml_content,    \* ASSConverter: the document, as its sequence of expat events
    state,          \* parse_cinecanvas_xml: the _ParserState of the running parse
    parse_pos,      \* parse_cinecanvas_xml: how many events expat has delivered
    converter,      \* the ASSConverter object, None until it is constructed
    raised,         \* the exception the last converter call raised, or None
    parsed,         \* parse_cinecanvas_xml: the DCSubtitle of each call so far
    output_file,    \* ASSConverter.save: what was written to the file, or None
    position_args,  \* calculate_positioning: the arguments
    position_result, \* calculate_positioning: what the call gave
    effect_frame,   \* calculate_effect_size: the (width, height) of the calls
    effect_calls,   \* calculate_effect_size: font size and result of each call
    font_file,      \* FontFile.get_font: the FontFile object
    font_calls,     \* FontFile.get_font: root_dir, loader use and result of each call
    directional_args,   \* make_directional_text: the arguments
    directional_result  \* make_directional_text: what the call gave

vars == <<timing_value, timing_result, hex_data, color_result,
          base_font, root_font, merge_result, parent_result,
          xml_content, state, parse_pos, converter, raised, parsed, output_file,
          position_args, position_result, effect_frame, effect_calls,
          font_file, font_calls, directional_args, directional_result>>

timingVars == <<timing_value, timing_result>>
colorVars == <<hex_data, color_result>>
fontVars == <<base_font, root_font, merge_result, parent_result>>
convertVars == <<xml_content, state, parse_pos, converter, raised, parsed, output_file>>
geometryVars == <<position_args, position_result, effect_frame, effect_calls>>
fontFileVars == <<font_file, font_calls>>
payloadVars == <<directional_args, directional_result>>

----------------------------------------------------------------------------
(* Optional values and results of calls that may raise.                    *)

None == <<>>

Some(v) == <<v>>

IsNone(x) == x = <<>>

Get(x) == x[1]

\* Python's "a or b" on optional strings: a when a is neither None nor empty.
OrElse(a, b) == IF IsNone(a) \/ Get(a) = <<>> THEN b ELSE a

Ok(v) == [ok |-> TRUE, val |-> v]

Raise(e) == [ok |-> FALSE, err |-> e]
\* What the caller does with the value of a call, unless the call raised.
Then(r, F(_)) == IF r.ok THEN F(r.val) ELSE r

\* The value of a harness output before the call was made.
NotRun == [ok |-> FALSE, err |-> "not run"]

HasRun(r) == r.ok \/ r.err # "not run"

----------------------------------------------------------------------------
(* Character strings.                                                      *)

DigitChars == <<"0", "1", "2", "3", "4", "5", "6", "7", "8", "9">>

DigitSet == {DigitChars[i] : i \in 1..10}

IsSpace(c) == c \in {" ", "\t", "\n"}

DigitValue(c) == CHOOSE d \in 0..9 : DigitChars[d + 1] = c

\* str.isdigit() on ASCII text: non-empty and all digits.
IsDigit(s) == Len(s) > 0 /\ \A i \in 1..Len(s) : s[i] \in DigitSet

\* int(s) for a string of digits.
RECURSIVE ToInt(_)
ToInt(s) ==
    IF Len(s) = 0 THEN 0
    ELSE 10 * ToInt(SubSeq(s, 1, Len(s) - 1)) + DigitValue(s[Len(s)])

\* str.strip(): leading and trailing whitespace removed.
RECURSIVE LStrip(_)
LStrip(s) == IF Len(s) > 0 /\ IsSpace(s[1]) THEN LStrip(Tail(s)) ELSE s

RECURSIVE RStrip(_)
RStrip(s) ==
    IF Len(s) > 0 /\ IsSpace(s[Len(s)]) THEN RStrip(SubSeq(s, 1, Len(s) - 1)) ELSE s

Strip(s) == RStrip(LStrip(s))

UpperChars == <<"A", "B", "C", "D", "E", "F", "G", "H", "I", "J", "K", "L", "M",
                "N", "O", "P", "Q", "R", "S", "T", "U", "V", "W", "X", "Y", "Z">>

LowerChars == <<"a", "b", "c", "d", "e", "f", "g", "h", "i", "j", "k", "l", "m",
                "n", "o", "p", "q", "r", "s", "t", "u", "v", "w", "x", "y", "z">>

\* str.lower()
LowerChar(c) ==
    IF \E i \in 1..26 : UpperChars[i] = c
    THEN LowerChars[CHOOSE i \in 1..26 : UpperChars[i] = c]
    ELSE c

Lower(s) == [i \in 1..Len(s) |-> LowerChar(s[i])]

\* Decimal text of a natural number, and the same zero-padded to a width.
RECURSIVE Dec(_)
Dec(n) == IF n < 10 THEN <<DigitChars[n + 1]>> ELSE Dec(n \div 10) \o <<DigitChars[(n % 10) + 1]>>

RECURSIVE ZFill(_, _)
ZFill(s, w) == IF Len(s) >= w THEN s ELSE ZFill(<<"0">> \o s, w)

\* All sequences over alphabet a of length 0..n.
SeqsUpTo(a, n) == UNION {[1..k -> a] : k \in 0..n}

----------------------------------------------------------------------------
(* CineTiming (parser.py 69-109).                                          *)

TICK_MS == 4

MaxTickValue == 249

CineTiming(h, m, s, ms) == [hours |-> h, minutes |-> m, seconds |-> s, miliseconds |-> ms]

to_miliseconds(t) == (t.hours * 3600 + t.minutes * 60 + t.seconds) * 1000 + t.miliseconds

\* Length of the run of digits of s that starts at position i (0 when s[i]
\* is no digit or i is past the end).
RECURSIVE DigitRun(_, _)
DigitRun(s, i) ==
    IF i <= Len(s) /\ s[i] \in DigitSet THEN 1 + DigitRun(s, i + 1) ELSE 0

\* re.match(r"(\d+):(\d+):(\d+)<sep>(\d+)", s): a match anchored at the start
\* of s only. Each \d+ is followed by a non-digit, so the only possible match
\* takes the maximal digit run for every group. None when there is no match,
\* else the four groups.
MatchTimecode(s, sep) ==
    LET n1 == DigitRun(s, 1)
        p2 == n1 + 2
        n2 == DigitRun(s, p2)
        p3 == p2 + n2 + 1
        n3 == DigitRun(s, p3)
        p4 == p3 + n3 + 1
        n4 == DigitRun(s, p4)
    IN  IF /\ n1 > 0 /\ Len(s) >= n1 + 1 /\ s[n1 + 1] = ":"
           /\ n2 > 0 /\ Len(s) >= p2 + n2 /\ s[p2 + n2] = ":"
           /\ n3 > 0 /\ Len(s) >= p3 + n3 /\ s[p3 + n3] = sep
           /\ n4 > 0
        THEN Some(<<SubSeq(s, 1, n1), SubSeq(s, p2, p2 + n2 - 1),
                    SubSeq(s, p3, p3 + n3 - 1), SubSeq(s, p4, p4 + n4 - 1)>>)
        ELSE None

\* ms.ljust(3, "0")[:3]
LJust3(s) == SubSeq(s \o <<"0", "0", "0">>, 1, 3)

from_xml_ticks(as_int) ==
    IF as_int < 0 \/ as_int > MaxTickValue THEN Raise("ValueError")
    ELSE Ok(CineTiming(0, 0, 0, as_int * TICK_MS))

from_xml_timecode(g) ==
    IF ToInt(g[4]) < 0 \/ ToInt(g[4]) > MaxTickValue THEN Raise("ValueError")
    ELSE Ok(CineTiming(ToInt(g[1]), ToInt(g[2]), ToInt(g[3]), ToInt(g[4])))

from_xml_fraction(g) ==
    Ok(CineTiming(ToInt(g[1]), ToInt(g[2]), ToInt(g[3]), ToInt(LJust3(g[4]))))

from_xml(raw) ==
    LET value == Strip(raw)
        colon == MatchTimecode(value, ":")
        dot == MatchTimecode(value, ".")
    IN  IF IsDigit(value) THEN from_xml_ticks(ToInt(value))
        ELSE IF ~IsNone(colon) THEN from_xml_timecode(Get(colon))
        ELSE IF ~IsNone(dot) THEN from_xml_fraction(Get(dot))
        ELSE Raise("ValueError")

----------------------------------------------------------------------------
(* Color (parser.py 112-137).                                              *)

HexChars == <<"0", "1", "2", "3", "4", "5", "6", "7", "8", "9",
              "a", "b", "c", "d", "e", "f">>

IsHexChar(c) == \E i \in 1..16 : HexChars[i] = LowerChar(c)

HexValue(c) == (CHOOSE i \in 1..16 : HexChars[i] = LowerChar(c)) - 1

RECURSIVE HexToInt(_)
HexToInt(s) ==
    IF Len(s) = 0 THEN 0
    ELSE 16 * HexToInt(SubSeq(s, 1, Len(s) - 1)) + HexValue(s[Len(s)])

\* int(text, 16): blanks around the number and one sign before it are
\* accepted, then at least one hexadecimal digit and nothing else.
int16(text) ==
    LET t == Strip(text)
        signed == Len(t) > 0 /\ t[1] \in {"+", "-"}
        digits == IF signed THEN Tail(t) ELSE t
    IN  IF Len(digits) = 0 \/ \E i \in 1..Len(digits) : ~IsHexChar(digits[i])
        THEN Raise("ValueError")
        ELSE Ok(IF signed /\ t[1] = "-" THEN 0 - HexToInt(digits) ELSE HexToInt(digits))

Color(rr, gg, bb, aa) == [r |-> rr, g |-> gg, b |-> bb, a |-> aa]

white == Color(255, 255, 255, 255)

black == Color(0, 0, 0, 255)

\* from_hex as a plausible slip would have it: the string read as AABBGGRR.
from_hex_swapped(hex) ==
    IF Len(hex) # 8 THEN Raise("ValueError")
    ELSE LET aa == int16(SubSeq(hex, 1, 2))
             rr == int16(SubSeq(hex, 7, 8))
             gg == int16(SubSeq(hex, 5, 6))
             bb == int16(SubSeq(hex, 3, 4))
         IN  IF ~aa.ok \/ ~rr.ok \/ ~gg.ok \/ ~bb.ok THEN Raise("ValueError")
             ELSE Ok(Color(rr.val, gg.val, bb.val, aa.val))

from_hex(hex) ==
    IF Len(hex) # 8 THEN Raise("ValueError")
    ELSE LET aa == int16(SubSeq(hex, 1, 2))
             rr == int16(SubSeq(hex, 3, 4))
             gg == int16(SubSeq(hex, 5, 6))
             bb == int16(SubSeq(hex, 7, 8))
         IN  IF ~aa.ok \/ ~rr.ok \/ ~gg.ok \/ ~bb.ok THEN Raise("ValueError")
             ELSE Ok(Color(rr.val, gg.val, bb.val, aa.val))

(* The colour inputs: strings of every length up to MaxHexLen over two hex  *)
(* digits; 8-character strings made of four pairs drawn from HexPairs      *)
(* (which holds pairs that are not hexadecimal); and every byte value, in   *)
(* both letter cases, at each of the four pair positions.                  *)

MaxHexLen == 9

HexPairs == {<<"0", "0">>, <<"f", "f">>, <<"7", "F">>, <<"A", "5">>,
             <<"0", "g">>, <<"-", "1">>, <<" ", "c">>}

AllHexChars == {HexChars[i] : i \in 1..16} \cup {UpperChars[i] : i \in 1..6}

BytePairs == {<<hi, lo>> : hi \in AllHexChars, lo \in AllHexChars}

PairAt(k, pair) ==
    [i \in 1..8 |-> IF i = 2 * k - 1 THEN pair[1] ELSE IF i = 2 * k THEN pair[2] ELSE "0"]

ColorInputs ==
    SeqsUpTo({"0", "f"}, MaxHexLen)
    \cup {p1 \o p2 \o p3 \o p4 : p1 \in HexPairs, p2 \in HexPairs,
                                 p3 \in HexPairs, p4 \in HexPairs}
    \cup {PairAt(k, pair) : k \in 1..4, pair \in BytePairs}

----------------------------------------------------------------------------
(* Font and FontOverride (parser.py 140-207). Both are records with a cls  *)
(* field and the same eleven fields, each an optional value; a Font built  *)
(* by the parser has every field set.                                      *)

FieldNames == {"font", "color", "effect", "effect_color", "italic", "weight",
               "script", "size", "aspect_adjust", "underlined", "spacing"}

DefaultSize == 42

DefaultAspect == 100

DefaultSpacing == 0

MinSpacing == -100

MinAspect == 25

MaxAspect == 400

IsFont(x) == ~IsNone(x) /\ Get(x).cls = "Font"

IsFontOverride(x) == ~IsNone(x) /\ Get(x).cls = "FontOverride"

\* Font.__post_init__: the comparisons raise TypeError on None.
Font_post_init(f) ==
    IF IsNone(f.spacing) THEN Raise("TypeError")
    ELSE IF Get(f.spacing) < MinSpacing THEN Raise("ValueError")
    ELSE IF IsNone(f.aspect_adjust) THEN Raise("TypeError")
    ELSE IF Get(f.aspect_adjust) < MinAspect \/ Get(f.aspect_adjust) > MaxAspect
         THEN Raise("ValueError")
    ELSE Ok(f)

\* FontOverride.__post_init__
FontOverride_post_init(f) ==
    IF ~IsNone(f.spacing) /\ Get(f.spacing) < MinSpacing THEN Raise("ValueError")
    ELSE IF /\ ~IsNone(f.aspect_adjust)
            /\ (Get(f.aspect_adjust) < MinAspect \/ Get(f.aspect_adjust) > MaxAspect)
         THEN Raise("ValueError")
    ELSE Ok(f)

\* Font(font=face): every other field at its declared default.
FontDefaults(face) ==
    [cls |-> "Font",
     font |-> face,
     color |-> Some(white),
     effect |-> Some("shadow"),
     effect_color |-> Some(black),
     italic |-> Some(FALSE),
     weight |-> Some("normal"),
     script |-> Some("normal"),
     size |-> Some(DefaultSize),
     aspect_adjust |-> Some(DefaultAspect),
     underlined |-> Some(FALSE),
     spacing |-> Some(DefaultSpacing)]

\* with_parent as a plausible slip would have it: "self.x or parent.x", which
\* lets a falsy override value (False, 0) fall through to the parent.
with_parent_truthy(self, parent) ==
    Font_post_init(
        [n \in FieldNames \cup {"cls"} |->
            IF n = "cls" THEN "Font"
            ELSE IF n \in {"italic", "underlined"}
                 THEN (IF ~IsNone(self[n]) /\ Get(self[n]) = TRUE THEN self[n] ELSE parent[n])
            ELSE IF n \in {"size", "spacing"}
                 THEN (IF ~IsNone(self[n]) /\ Get(self[n]) # 0 THEN self[n] ELSE parent[n])
            ELSE IF ~IsNone(self[n]) THEN self[n] ELSE parent[n]])

with_parent(self, parent) ==
    Font_post_init(
        [cls |-> "Font",
         font |-> IF ~IsNone(self.font) THEN self.font ELSE parent.font,
         color |-> IF ~IsNone(self.color) THEN self.color ELSE parent.color,
         effect |-> IF ~IsNone(self.effect) THEN self.effect ELSE parent.effect,
         effect_color |-> IF ~IsNone(self.effect_color) THEN self.effect_color
                          ELSE parent.effect_color,
         italic |-> IF ~IsNone(self.italic) THEN self.italic ELSE parent.italic,
         weight |-> IF ~IsNone(self.weight) THEN self.weight ELSE parent.weight,
         script |-> IF ~IsNone(self.script) THEN self.script ELSE parent.script,
         size |-> IF ~IsNone(self.size) THEN self.size ELSE parent.size,
         aspect_adjust |-> IF ~IsNone(self.aspect_adjust) THEN self.aspect_adjust
                           ELSE parent.aspect_adjust,
         underlined |-> IF ~IsNone(self.underlined) THEN self.underlined
                        ELSE parent.underlined,
         spacing |-> IF ~IsNone(self.spacing) THEN self.spacing ELSE parent.spacing])

----------------------------------------------------------------------------
(* maybe_merge_font (main.py 77-90). Arguments are optional records.       *)

\* maybe_merge_font as a plausible slip would have it: a resolved local Font
\* is still laid over the inherited Font instead of winning outright.
maybe_merge_font_remerge(base, root) ==
    IF IsNone(base) /\ ~IsNone(root) THEN Ok(Get(root))
    ELSE IF IsFont(base) /\ IsFont(root)
         THEN Ok([Get(base) EXCEPT !.font = Get(root).font])
    ELSE IF IsFont(base) THEN Ok(Get(base))
    ELSE IF IsFontOverride(base) /\ IsFontOverride(root)
         THEN with_parent(Get(base), Get(root))
    ELSE IF IsFontOverride(base) /\ IsNone(root) /\ ~IsNone(Get(base).font)
         THEN with_parent(Get(base), FontDefaults(Get(base).font))
    ELSE IF IsFont(root) THEN Ok(Get(root))
    ELSE Raise("ValueError")

\* maybe_merge_font as a plausible slip would have it: an override without a
\* face and without inherited context is upgraded with an empty face.
maybe_merge_font_noface(base, root) ==
    IF IsNone(base) /\ ~IsNone(root) THEN Ok(Get(root))
    ELSE IF IsFont(base) THEN Ok(Get(base))
    ELSE IF IsFontOverride(base) /\ IsFontOverride(root)
         THEN with_parent(Get(base), Get(root))
    ELSE IF IsFontOverride(base) /\ IsNone(root)
         THEN with_parent(Get(base),
                          FontDefaults(IF IsNone(Get(base).font) THEN Some(<<>>)
                                       ELSE Get(base).font))
    ELSE IF IsFont(root) THEN Ok(Get(root))
    ELSE Raise("ValueError")

maybe_merge_font(base, root) ==
    IF IsNone(base) /\ ~IsNone(root) THEN Ok(Get(root))
    ELSE IF IsFont(base) THEN Ok(Get(base))
    ELSE IF IsFontOverride(base) /\ IsFontOverride(root)
         THEN with_parent(Get(base), Get(root))
    ELSE IF IsFontOverride(base) /\ IsNone(root) /\ ~IsNone(Get(base).font)
         THEN with_parent(Get(base), FontDefaults(Get(base).font))
    ELSE IF IsFont(root) THEN Ok(Get(root))
    ELSE Raise("ValueError")

(* The font inputs. Two sets of field values, one all truthy and one all   *)
(* falsy; a local override is either set masked to any subset of the       *)
(* fields; resolved fonts have every field; an inherited override is       *)
(* either set masked to a family of subsets that gives every combination   *)
(* of null and non-null per field, and of spacing with aspect_adjust.      *)

ValuesA ==
    [font |-> <<"A", "r", "i", "a", "l">>, color |-> Color(255, 0, 0, 255), effect |-> "border",
     effect_color |-> Color(0, 0, 255, 128), italic |-> TRUE, weight |-> "bold",
     script |-> "super", size |-> 30, aspect_adjust |-> 150, underlined |-> TRUE,
     spacing |-> 50]

ValuesB ==
    [font |-> <<>>, color |-> Color(0, 0, 0, 0), effect |-> "none",
     effect_color |-> Color(1, 2, 3, 4), italic |-> FALSE, weight |-> "normal",
     script |-> "normal", size |-> 0, aspect_adjust |-> 25, underlined |-> FALSE,
     spacing |-> 0]

Masked(cls, values, mask) ==
    [n \in FieldNames \cup {"cls"} |->
        IF n = "cls" THEN cls ELSE IF n \in mask THEN Some(values[n]) ELSE None]

ResolvedFonts ==
    {Masked("Font", ValuesA, FieldNames), Masked("Font", ValuesB, FieldNames),
     FontDefaults(Some(<<"H", "e", "l", "v">>))}

LocalOverrides ==
    {Masked("FontOverride", v, m) : v \in {ValuesA, ValuesB}, m \in SUBSET FieldNames}

InheritedMasks ==
    {{}, FieldNames, {"spacing"}, {"aspect_adjust"}, {"spacing", "aspect_adjust"},
     FieldNames \ {"spacing"}, FieldNames \ {"aspect_adjust"},
     FieldNames \ {"spacing", "aspect_adjust"}, {"font"}}

InheritedOverrides ==
    {Masked("FontOverride", v, m) : v \in {ValuesA, ValuesB}, m \in InheritedMasks}

OptionOf(S) == {None} \cup {Some(x) : x \in S}

----------------------------------------------------------------------------
(* Attribute dictionaries and attribute value parsers (parser.py 345-481). *)
(* An attrs dict is a function from attribute names to character strings;  *)
(* <<>> is the empty dict.                                                  *)

AttrGet(attrs, k) == IF k \in DOMAIN attrs THEN Some(attrs[k]) ELSE None

\* key.lower() for the attribute names that are spelled with capitals.
NameLower ==
    [Id |-> "id", ID |-> "id", Face |-> "face", Font |-> "font", Family |-> "family",
     Color |-> "color", Effect |-> "effect", EffectColor |-> "effectcolor",
     Italic |-> "italic", Weight |-> "weight", Script |-> "script", Size |-> "size",
     AspectAdjust |-> "aspectadjust", Underlined |-> "underlined",
     Spacing |-> "spacing", COLOR |-> "color", Position |-> "position",
     Offset |-> "offset", Direction |-> "direction", DIRECTION |-> "direction"]

LowerName(k) == IF k \in DOMAIN NameLower THEN NameLower[k] ELSE k

\* {key.lower(): value for key, value in attrs.items()}
Lowered(attrs) ==
    [k2 \in {LowerName(k) : k \in DOMAIN attrs} |->
        attrs[CHOOSE k \in DOMAIN attrs : LowerName(k) = k2]]

\* The spellings of the enum values and of the boolean words.
Text_left == <<"l", "e", "f", "t">>
Text_right == <<"r", "i", "g", "h", "t">>
Text_center == <<"c", "e", "n", "t", "e", "r">>
Text_top == <<"t", "o", "p">>
Text_bottom == <<"b", "o", "t", "t", "o", "m">>
Text_horizontal == <<"h", "o", "r", "i", "z", "o", "n", "t", "a", "l">>
Text_vertical == <<"v", "e", "r", "t", "i", "c", "a", "l">>
Text_none == <<"n", "o", "n", "e">>
Text_border == <<"b", "o", "r", "d", "e", "r">>
Text_shadow == <<"s", "h", "a", "d", "o", "w">>
Text_normal == <<"n", "o", "r", "m", "a", "l">>
Text_bold == <<"b", "o", "l", "d">>
Text_super == <<"s", "u", "p", "e", "r">>
Text_sub == <<"s", "u", "b">>
Text_yes == <<"y", "e", "s">>
Text_true == <<"t", "r", "u", "e">>
Text_no == <<"n", "o">>
Text_false == <<"f", "a", "l", "s", "e">>

\* int(text): blanks around the number and one sign before it are accepted.
Unsigned(t) == IF Len(t) > 0 /\ t[1] \in {"+", "-"} THEN Tail(t) ELSE t

Sign(t) == IF Len(t) > 0 /\ t[1] = "-" THEN -1 ELSE 1

IntOf(sign, digits) ==
    IF ~IsDigit(digits) THEN Raise("ValueError") ELSE Ok(sign * ToInt(digits))

IntOfStripped(t) == IntOf(Sign(t), Unsigned(t))

ParseInt(text) == IntOfStripped(Strip(text))

\* float(text) for decimal notation, in hundredths. The texts the model draws
\* hold at most two fractional digits, which the hundredths keep exactly.
\* The position of the first "." of body, or one past its end.
RECURSIVE DotAt(_, _)
DotAt(body, i) == IF i > Len(body) \/ body[i] = "." THEN i ELSE DotAt(body, i + 1)

FloatOf(sign, whole, frac) ==
    IF \/ Len(whole) + Len(frac) = 0
       \/ (Len(whole) > 0 /\ ~IsDigit(whole))
       \/ (Len(frac) > 0 /\ ~IsDigit(frac))
    THEN Raise("ValueError")
    ELSE Ok(sign * (ToInt(whole) * 100 + ToInt(SubSeq(frac \o <<"0", "0">>, 1, 2))))

FloatSplit(sign, body, d) ==
    FloatOf(sign, SubSeq(body, 1, d - 1), SubSeq(body, d + 1, Len(body)))

FloatOfStripped(t) == FloatSplit(Sign(t), Unsigned(t), DotAt(Unsigned(t), 1))

ParseFloat(text) == FloatOfStripped(Strip(text))

_parse_bool(value) ==
    IF IsNone(value) THEN None
    ELSE LET v == Lower(Strip(Get(value)))
         IN  IF v \in {Text_yes, Text_true, <<"1">>} THEN Some(TRUE)
             ELSE IF v \in {Text_no, Text_false, <<"0">>} THEN Some(FALSE)
             ELSE None

_parse_text_effect(value) ==
    IF IsNone(value) THEN None
    ELSE LET normalized == Lower(Strip(Get(value)))
         IN  IF normalized = Text_border THEN Some("border")
             ELSE IF normalized = Text_shadow THEN Some("shadow")
             ELSE IF normalized = Text_none THEN Some("none")
             ELSE None

_parse_text_weight(value) ==
    IF IsNone(value) THEN None
    ELSE LET normalized == Lower(Strip(Get(value)))
         IN  IF normalized = Text_bold THEN Some("bold")
             ELSE IF normalized = Text_normal THEN Some("normal")
             ELSE None

_parse_text_script(value) ==
    IF IsNone(value) THEN None
    ELSE LET normalized == Lower(Strip(Get(value)))
         IN  IF normalized = Text_super THEN Some("super")
             ELSE IF normalized = Text_sub THEN Some("sub")
             ELSE IF normalized = Text_normal THEN Some("normal")
             ELSE None

\* _parse_color: None, or the result of Color.from_hex, which may raise.
_parse_color(value) ==
    IF IsNone(value) THEN Ok(None)
    ELSE Then(from_hex(Strip(Get(value))), LAMBDA c : Ok(Some(c)))

\* int(lowered[key]) if key in lowered else None, and the same for float.
OptInt(low, key) ==
    IF key \notin DOMAIN low THEN Ok(None)
    ELSE Then(ParseInt(low[key]), LAMBDA n : Ok(Some(n)))

OptFloat(low, key) ==
    IF key \notin DOMAIN low THEN Ok(None)
    ELSE Then(ParseFloat(low[key]), LAMBDA n : Ok(Some(n)))

FontOverride(low, color, effect_color, size, aspect_adjust, spacing) ==
    FontOverride_post_init(
        [cls |-> "FontOverride",
         font |-> OrElse(OrElse(AttrGet(low, "face"), AttrGet(low, "font")),
                         AttrGet(low, "family")),
         color |-> color,
         effect |-> _parse_text_effect(AttrGet(low, "effect")),
         effect_color |-> effect_color,
         italic |-> _parse_bool(AttrGet(low, "italic")),
         weight |-> _parse_text_weight(AttrGet(low, "weight")),
         script |-> _parse_text_script(AttrGet(low, "script")),
         size |-> size,
         aspect_adjust |-> aspect_adjust,
         underlined |-> _parse_bool(AttrGet(low, "underlined")),
         spacing |-> spacing])

\* The arguments that may raise, in the order the call evaluates them.
_parse_font_override_lowered(low) ==
    Then(_parse_color(AttrGet(low, "color")), LAMBDA color :
    Then(_parse_color(AttrGet(low, "effectcolor")), LAMBDA effect_color :
    Then(OptInt(low, "size"), LAMBDA size :
    Then(OptFloat(low, "aspectadjust"), LAMBDA aspect_adjust :
    Then(OptFloat(low, "spacing"), LAMBDA spacing :
        FontOverride(low, color, effect_color, size, aspect_adjust, spacing))))))

_parse_font_override(attrs) == _parse_font_override_lowered(Lowered(attrs))

\* "x or default" on a parsed optional value: every enum member and every
\* Color is truthy; False is not.
OrDefault(x, default) == IF IsNone(x) THEN Some(default) ELSE x

OrFalse(x) == IF IsNone(x) THEN Some(FALSE) ELSE x

Font(font_id, low, color, effect_color, size, aspect_adjust, spacing) ==
    Font_post_init(
        [cls |-> "Font",
         font |-> font_id,
         color |-> OrDefault(color, white),
         effect |-> OrDefault(_parse_text_effect(AttrGet(low, "effect")), "shadow"),
         effect_color |-> OrDefault(effect_color, black),
         italic |-> OrFalse(_parse_bool(AttrGet(low, "italic"))),
         weight |-> OrDefault(_parse_text_weight(AttrGet(low, "weight")), "normal"),
         script |-> OrDefault(_parse_text_script(AttrGet(low, "script")), "normal"),
         size |-> OrDefault(size, DefaultSize),
         aspect_adjust |-> OrDefault(aspect_adjust, DefaultAspect),
         underlined |-> OrFalse(_parse_bool(AttrGet(low, "underlined"))),
         spacing |-> OrDefault(spacing, DefaultSpacing)])

\* font_id, then the arguments that may raise, in the order the call
\* evaluates them.
_parse_font_lowered(id, low) ==
    Then(_parse_color(AttrGet(low, "color")), LAMBDA color :
    Then(_parse_color(AttrGet(low, "effectcolor")), LAMBDA effect_color :
    Then(OptInt(low, "size"), LAMBDA size :
    Then(OptFloat(low, "aspectadjust"), LAMBDA aspect_adjust :
    Then(OptFloat(low, "spacing"), LAMBDA spacing :
        Font(IF IsNone(id)
             THEN OrElse(OrElse(AttrGet(low, "font"), AttrGet(low, "face")), Some(<<>>))
             ELSE id,
             low, color, effect_color, size, aspect_adjust, spacing))))))

_parse_font(attrs) ==
    _parse_font_lowered(
        OrElse(OrElse(AttrGet(attrs, "Id"), AttrGet(attrs, "ID")), AttrGet(attrs, "id")),
        Lowered(attrs))

_parse_align_h(value) ==
    IF IsNone(value) THEN None
    ELSE LET normalized == Lower(Strip(Get(value)))
         IN  IF normalized = Text_left THEN Some("left")
             ELSE IF normalized = Text_right THEN Some("right")
             ELSE IF normalized = Text_center THEN Some("center")
             ELSE None

_parse_align_v(value) ==
    IF IsNone(value) THEN None
    ELSE LET normalized == Lower(Strip(Get(value)))
         IN  IF normalized = Text_top THEN Some("top")
             ELSE IF normalized = Text_bottom THEN Some("bottom")
             ELSE IF normalized = Text_center THEN Some("center")
             ELSE None

_parse_direction(value) ==
    IF IsNone(value) THEN "horizontal"
    ELSE LET normalized == Lower(Strip(Get(value)))
         IN  IF normalized = Text_horizontal THEN "horizontal"
             ELSE IF normalized = Text_vertical THEN "vertical"
             ELSE "horizontal"

----------------------------------------------------------------------------
(* The tree builder (parser.py 313-779): _ParserState and the three expat  *)
(* handlers, each an operator from the state before an event to the state  *)
(* after it, or to the exception that aborts parsing. A list of character  *)
(* chunks that the code only ever joins is kept joined.                    *)
(* Elements modelled: DCSubtitle, SubtitleID, MovieTitle, ReelNumber,      *)
(* Language, LoadFont, Font, Subtitle, Text, Ruby, Rb, Rt.                 *)

_SIMPLE_TEXT_TAGS == {"SubtitleID", "MovieTitle", "ReelNumber", "Language"}

\* _ParserState()
_ParserState ==
    [version |-> None, subtitle_id |-> None, title |-> None, reel |-> None,
     language |-> None, fonts |-> <<>>, contents |-> <<>>,
     current_font_stack |-> <<>>, current_subtitle |-> None,
     current_text_attrs |-> None, current_text_contents |-> None,
     plain_buffer |-> <<>>, inline_font_stack |-> <<>>, inline_font_buffers |-> <<>>,
     current_simple_tag |-> None, simple_buffer |-> <<>>,
     current_ruby_attrs |-> None, ruby_base_buffer |-> None, ruby_text_buffer |-> None,
     current_space_size |-> None, hgroup_buffer |-> None, rotate_buffer |-> None,
     rotate_direction |-> None]

\* The content items. Content (a plain str), ContentWithFont, ContentWithRuby.
Content(text) == [kind |-> "Content", text |-> text]

\* The defaults of ContentWithRuby and of the Rt attributes, in hundredths.
DefaultRubySize == 50

DefaultRubyAspect == 100

\* ContentWithRuby(...) with its __post_init__; the numbers are in hundredths.
ContentWithRuby(base, ruby, size, position, offset, spacing, aspect_adjust) ==
    IF offset < MinSpacing \/ spacing < MinSpacing
       \/ aspect_adjust < MinAspect \/ aspect_adjust > MaxAspect
    THEN Raise("ValueError")
    ELSE Ok([kind |-> "ContentWithRuby", base |-> base, ruby |-> ruby, size |-> size,
             position |-> position, offset |-> offset, spacing |-> spacing,
             aspect_adjust |-> aspect_adjust])

ContentWithFont(content, font) ==
    [kind |-> "ContentWithFont", content |-> content, font |-> font]

\* FontFile(id=..., uri=...) with its __post_init__.
FontFile(id, uri) == [id |-> id, uri |-> uri, _font_data |-> None]

\* The directories a FontFile is looked up in, and the font files that
\* exist: TTFont(path) reads the file at path, or raises when there is none.
RootDirs == {"subs", "fonts", "nowhere"}

FontUris == {<<"a", ".", "t", "t", "f">>, <<"b", ".", "o", "t", "f">>}

ExistingFonts ==
    {<<"subs", <<"a", ".", "t", "t", "f">>>>, <<"fonts", <<"a", ".", "t", "t", "f">>>>,
     <<"fonts", <<"b", ".", "o", "t", "f">>>>}

TTFont(path) ==
    IF path \in ExistingFonts THEN Ok([file |-> path]) ELSE Raise("FileNotFoundError")

\* FontFile.get_font reading the font file again at every call.
get_font_uncached(self, root_dir) ==
    LET ttf == TTFont(<<root_dir, self.uri>>)
    IN  [self |-> IF ttf.ok THEN [self EXCEPT !._font_data = Some(ttf.val)] ELSE self,
         loader |-> <<<<root_dir, self.uri>>>>,
         ret |-> ttf]

\* FontFile.get_font(root_dir): the object after the call, the paths the
\* call gave to TTFont, and what the call returned or raised.
get_font(self, root_dir) ==
    IF ~IsNone(self._font_data)
    THEN [self |-> self, loader |-> <<>>, ret |-> Ok(Get(self._font_data))]
    ELSE LET ttf == TTFont(<<root_dir, self.uri>>)
         IN  [self |-> IF ttf.ok THEN [self EXCEPT !._font_data = Some(ttf.val)] ELSE self,
              loader |-> <<<<root_dir, self.uri>>>>,
              ret |-> ttf]

ContentSpacing(size) == [kind |-> "ContentSpacing", size |-> size]

ContentHGroup(text) == [kind |-> "ContentHGroup", text |-> text]

\* direction is None, Some("left") or Some("right").
ContentRotate(text, direction) ==
    [kind |-> "ContentRotate", text |-> text, direction |-> direction]

\* CineTiming(0, 0, 0, 80): the default fade, 20 ticks.
DefaultFadeMs == 80

Last(s) == s[Len(s)]

Front(s) == SubSeq(s, 1, Len(s) - 1)

_flush_plain_text(st) ==
    IF IsNone(st.current_text_contents) THEN [st EXCEPT !.plain_buffer = <<>>]
    ELSE IF st.plain_buffer = <<>> THEN st
    ELSE [st EXCEPT !.current_text_contents = Some(Append(Get(@), Content(st.plain_buffer))),
                    !.plain_buffer = <<>>]

start_DCSubtitle(st, attrs) ==
    LET version == OrElse(AttrGet(attrs, "Version"), AttrGet(attrs, "version"))
    IN  IF version = Some(<<"1", ".", "0">>) THEN Ok([st EXCEPT !.version = Some("1.0")])
        ELSE IF version = Some(<<"1", ".", "1">>) THEN Ok([st EXCEPT !.version = Some("1.1")])
        ELSE Ok(st)

start_simple(st, name) ==
    Ok([st EXCEPT !.current_simple_tag = Some(name), !.simple_buffer = <<>>])

start_LoadFont(st, attrs) ==
    LET font_id == OrElse(OrElse(AttrGet(attrs, "Id"), AttrGet(attrs, "ID")),
                          AttrGet(attrs, "id"))
        uri == OrElse(AttrGet(attrs, "URI"), AttrGet(attrs, "uri"))
    IN  IF ~IsNone(font_id) /\ Get(font_id) # <<>> /\ ~IsNone(uri) /\ Get(uri) # <<>>
        THEN Ok([st EXCEPT !.fonts = Append(@, FontFile(Get(font_id), Get(uri)))])
        ELSE Ok(st)

start_Font(st, attrs) ==
    IF ~IsNone(st.current_text_contents)
    THEN Then(_parse_font_override(attrs), LAMBDA override :
            Ok([_flush_plain_text(st) EXCEPT !.inline_font_stack = Append(@, override),
                                             !.inline_font_buffers = Append(@, <<>>)]))
    ELSE Then(_parse_font(attrs), LAMBDA font :
            Ok([st EXCEPT !.current_font_stack = Append(@, font)]))

\* Subtitle(...) of handle_start: the four timings are parsed in the order
\* start, end, fade_in, fade_out; each may raise.
\* Subtitle(...) taking the outermost root Font for the wrapping font.
new_Subtitle_outermost(st, attrs, start, end, fade_in, fade_out) ==
    [contents |-> <<>>,
     start |-> start,
     end |-> end,
     number |-> OrElse(AttrGet(attrs, "SpotNumber"), AttrGet(attrs, "spotnumber")),
     font |-> IF st.current_font_stack # <<>> THEN Some(st.current_font_stack[1]) ELSE None,
     fade_in |-> fade_in,
     fade_out |-> fade_out]

new_Subtitle(st, attrs, start, end, fade_in, fade_out) ==
    [contents |-> <<>>,
     start |-> start,
     end |-> end,
     number |-> OrElse(AttrGet(attrs, "SpotNumber"), AttrGet(attrs, "spotnumber")),
     font |-> IF st.current_font_stack # <<>> THEN Some(Last(st.current_font_stack)) ELSE None,
     fade_in |-> fade_in,
     fade_out |-> fade_out]

from_xml_or_default(value) ==
    IF ~IsNone(value) THEN from_xml(Get(value)) ELSE Ok(CineTiming(0, 0, 0, DefaultFadeMs))

\* The Subtitle start taking a missing TimeIn or TimeOut for the default fade.
start_Subtitle_timed_lenient(st, attrs, time_in, time_out, fade_up, fade_down) ==
    Then(from_xml_or_default(time_in), LAMBDA start :
    Then(from_xml_or_default(time_out), LAMBDA end :
    Then(from_xml_or_default(fade_up), LAMBDA fade_in :
    Then(from_xml_or_default(fade_down), LAMBDA fade_out :
        Ok([st EXCEPT !.current_subtitle =
                Some(new_Subtitle(st, attrs, start, end, fade_in, fade_out))])))))

start_Subtitle_timed(st, attrs, time_in, time_out, fade_up, fade_down) ==
    IF IsNone(time_in) \/ IsNone(time_out) THEN Raise("ValueError")
    ELSE Then(from_xml(Get(time_in)), LAMBDA start :
         Then(from_xml(Get(time_out)), LAMBDA end :
         Then(from_xml_or_default(fade_up), LAMBDA fade_in :
         Then(from_xml_or_default(fade_down), LAMBDA fade_out :
            Ok([st EXCEPT !.current_subtitle =
                    Some(new_Subtitle(st, attrs, start, end, fade_in, fade_out))])))))

start_Subtitle(st, attrs) ==
    start_Subtitle_timed(st, attrs,
        OrElse(AttrGet(attrs, "TimeIn"), AttrGet(attrs, "timein")),
        OrElse(AttrGet(attrs, "TimeOut"), AttrGet(attrs, "timeout")),
        OrElse(AttrGet(attrs, "FadeUpTime"), AttrGet(attrs, "fadeuptime")),
        OrElse(AttrGet(attrs, "FadeDownTime"), AttrGet(attrs, "fadedowntime")))

float_or_zero(value) == IF ~IsNone(value) THEN ParseFloat(Get(value)) ELSE Ok(0)

start_Text(st, attrs) ==
    Then(float_or_zero(OrElse(AttrGet(attrs, "HPosition"), AttrGet(attrs, "hposition"))),
         LAMBDA position_h_value :
    Then(float_or_zero(OrElse(AttrGet(attrs, "VPosition"), AttrGet(attrs, "vposition"))),
         LAMBDA position_v_value :
        Ok([st EXCEPT
            !.current_text_attrs = Some(
                [align_h |-> _parse_align_h(OrElse(AttrGet(attrs, "HAlign"),
                                                   AttrGet(attrs, "halign"))),
                 align_v |-> _parse_align_v(OrElse(AttrGet(attrs, "VAlign"),
                                                   AttrGet(attrs, "valign"))),
                 position_h |-> position_h_value,
                 position_v |-> position_v_value,
                 direction |-> _parse_direction(OrElse(AttrGet(attrs, "Direction"),
                                                       AttrGet(attrs, "direction")))]),
            !.current_text_contents = Some(<<>>),
            !.plain_buffer = <<>>])))

start_Ruby(st) ==
    IF IsNone(st.current_text_contents) THEN Ok(st)
    ELSE Ok([_flush_plain_text(st) EXCEPT !.current_ruby_attrs = Some(<<>>),
                                          !.ruby_base_buffer = Some(<<>>),
                                          !.ruby_text_buffer = None])

start_Rb(st) ==
    IF IsNone(st.ruby_base_buffer) THEN Ok(st)
    ELSE Ok([st EXCEPT !.ruby_base_buffer = Some(<<>>)])

_parse_ruby_position(value) ==
    IF IsNone(value) THEN "before"
    ELSE IF Lower(Strip(Get(value))) = <<"a", "f", "t", "e", "r">> THEN "after"
    ELSE "before"

\* text.rstrip("em")
RECURSIVE RStripEm(_)
RStripEm(text) ==
    IF text # <<>> /\ Last(text) \in {"e", "m"} THEN RStripEm(Front(text)) ELSE text

\* float(lowered.get(key, default).rstrip("em")), in hundredths.
EmFloat(low, key, default) ==
    IF key \in DOMAIN low THEN ParseFloat(RStripEm(low[key])) ELSE Ok(default)

\* float(lowered.get("aspectadjust", "1.0"))
AspectFloat(low) ==
    IF "aspectadjust" \in DOMAIN low THEN ParseFloat(low["aspectadjust"])
    ELSE Ok(DefaultRubyAspect)

start_Rt_lowered(st, low) ==
    Then(EmFloat(low, "size", DefaultRubySize), LAMBDA size :
    Then(EmFloat(low, "offset", 0), LAMBDA offset :
    Then(EmFloat(low, "spacing", 0), LAMBDA spacing :
    Then(AspectFloat(low), LAMBDA aspect_adjust :
        Ok([st EXCEPT
            !.ruby_text_buffer = Some(<<>>),
            !.current_ruby_attrs = Some(
                [size |-> size,
                 position |-> _parse_ruby_position(AttrGet(low, "position")),
                 offset |-> offset, spacing |-> spacing,
                 aspect_adjust |-> aspect_adjust])])))))

start_Rt(st, attrs) ==
    IF IsNone(st.current_ruby_attrs) THEN Ok(st) ELSE start_Rt_lowered(st, Lowered(attrs))

\* float(lowered.get("size", "0.5").rstrip("em")) of a Space, in hundredths.
DefaultSpaceSize == 50

start_Space(st, attrs) ==
    IF IsNone(st.current_text_contents) THEN Ok(st)
    ELSE Then(EmFloat(Lowered(attrs), "size", DefaultSpaceSize), LAMBDA size :
            Ok([_flush_plain_text(st) EXCEPT
                !.current_text_contents =
                    Some(Append(Get(@), ContentSpacing(size)))]))

start_HGroup(st) ==
    IF IsNone(st.current_text_contents) THEN Ok(st)
    ELSE Ok([_flush_plain_text(st) EXCEPT !.hgroup_buffer = Some(<<>>)])

\* lowered.get("direction", "none").strip().lower()
rotate_direction(low) ==
    IF "direction" \in DOMAIN low THEN Lower(Strip(low["direction"])) ELSE Text_none

\* The Rotate start taking every direction other than left for right.
start_Rotate_defaults_right(st, attrs) ==
    IF IsNone(st.current_text_contents) THEN Ok(st)
    ELSE Ok([_flush_plain_text(st) EXCEPT
            !.rotate_buffer = Some(<<>>),
            !.rotate_direction =
                IF rotate_direction(Lowered(attrs)) = Text_left THEN Some("left")
                ELSE Some("right")])

start_Rotate(st, attrs) ==
    IF IsNone(st.current_text_contents) THEN Ok(st)
    ELSE Ok([_flush_plain_text(st) EXCEPT
            !.rotate_buffer = Some(<<>>),
            !.rotate_direction =
                IF rotate_direction(Lowered(attrs)) = Text_left THEN Some("left")
                ELSE IF rotate_direction(Lowered(attrs)) = Text_right THEN Some("right")
                ELSE None])

handle_start(st, name, attrs) ==
    IF name = "DCSubtitle" THEN start_DCSubtitle(st, attrs)
    ELSE IF name \in _SIMPLE_TEXT_TAGS THEN start_simple(st, name)
    ELSE IF name = "LoadFont" THEN start_LoadFont(st, attrs)
    ELSE IF name = "Font" THEN start_Font(st, attrs)
    ELSE IF name = "Subtitle" THEN start_Subtitle(st, attrs)
    ELSE IF name = "Text" THEN start_Text(st, attrs)
    ELSE IF name = "Ruby" THEN start_Ruby(st)
    ELSE IF name = "Rb" THEN start_Rb(st)
    ELSE IF name = "Rt" THEN start_Rt(st, attrs)
    ELSE IF name = "Space" THEN start_Space(st, attrs)
    ELSE IF name = "HGroup" THEN start_HGroup(st)
    ELSE IF name = "Rotate" THEN start_Rotate(st, attrs)
    ELSE Ok(st)

end_simple_value(st, name, value) ==
    IF name = "SubtitleID" THEN Ok([st EXCEPT !.subtitle_id = Some(value)])
    ELSE IF name = "MovieTitle" THEN Ok([st EXCEPT !.title = Some(value)])
    ELSE IF name = "ReelNumber"
         THEN Then(ParseInt(value), LAMBDA reel : Ok([st EXCEPT !.reel = Some(reel)]))
    ELSE Ok([st EXCEPT !.language = Some(value)])

end_simple(st, name) ==
    end_simple_value([st EXCEPT !.simple_buffer = <<>>, !.current_simple_tag = None],
                     name, Strip(st.simple_buffer))

end_Font(st) ==
    IF ~IsNone(st.current_text_contents) /\ st.inline_font_stack # <<>>
    THEN Ok([st EXCEPT
            !.inline_font_buffers = Front(@),
            !.inline_font_stack = Front(@),
            !.current_text_contents =
                Some(Append(Get(@), ContentWithFont(Last(st.inline_font_buffers),
                                                    Last(st.inline_font_stack))))])
    ELSE IF st.current_font_stack # <<>>
         THEN Ok([st EXCEPT !.current_font_stack = Front(@)])
    ELSE Ok(st)

\* Text(...) of handle_end: "attrs = state.current_text_attrs or {}", then
\* attrs.get(key, default), which gives the default only when the key is
\* missing, not when it is stored as None.
\* The Text end putting the finished run in front of the subtitle's runs.
end_Text_prepending(st) ==
    LET flushed == _flush_plain_text(st)
        text_obj ==
            [contents |-> IF IsNone(flushed.current_text_contents) THEN <<>>
                          ELSE Get(flushed.current_text_contents),
             align_h |-> IF IsNone(flushed.current_text_attrs) THEN Some("center")
                         ELSE Get(flushed.current_text_attrs).align_h,
             align_v |-> IF IsNone(flushed.current_text_attrs) THEN Some("center")
                         ELSE Get(flushed.current_text_attrs).align_v,
             position_h |-> IF IsNone(flushed.current_text_attrs) THEN 0
                            ELSE Get(flushed.current_text_attrs).position_h,
             position_v |-> IF IsNone(flushed.current_text_attrs) THEN 0
                            ELSE Get(flushed.current_text_attrs).position_v,
             direction |-> IF IsNone(flushed.current_text_attrs) THEN "horizontal"
                           ELSE Get(flushed.current_text_attrs).direction,
             font |-> None]
    IN  IF IsNone(flushed.current_subtitle) THEN Raise("ValueError")
        ELSE Ok([flushed EXCEPT
                !.current_subtitle =
                    Some([Get(@) EXCEPT !.contents = <<text_obj>> \o @]),
                !.current_text_attrs = None,
                !.current_text_contents = None])

end_Text(st) ==
    LET flushed == _flush_plain_text(st)
        attrs == flushed.current_text_attrs
        text_obj ==
            [contents |-> IF IsNone(flushed.current_text_contents) THEN <<>>
                          ELSE Get(flushed.current_text_contents),
             align_h |-> IF IsNone(attrs) THEN Some("center") ELSE Get(attrs).align_h,
             align_v |-> IF IsNone(attrs) THEN Some("center") ELSE Get(attrs).align_v,
             position_h |-> IF IsNone(attrs) THEN 0 ELSE Get(attrs).position_h,
             position_v |-> IF IsNone(attrs) THEN 0 ELSE Get(attrs).position_v,
             direction |-> IF IsNone(attrs) THEN "horizontal" ELSE Get(attrs).direction,
             font |-> None]
    IN  IF IsNone(flushed.current_subtitle) THEN Raise("ValueError")
        ELSE Ok([flushed EXCEPT
                !.current_subtitle =
                    Some([Get(@) EXCEPT !.contents = Append(@, text_obj)]),
                !.current_text_attrs = None,
                !.current_text_contents = None])

end_Subtitle(st) ==
    IF IsNone(st.current_subtitle) THEN Ok(st)
    ELSE Ok([st EXCEPT !.contents = Append(@, Get(st.current_subtitle)),
                       !.current_subtitle = None])

\* attrs.get(key, default) on the dict of the Rt attributes.
RubyAttr(attrs, key, default) == IF key \in DOMAIN attrs THEN attrs[key] ELSE default

end_Ruby_content(st, attrs) ==
    Then(ContentWithRuby(Get(st.ruby_base_buffer), Get(st.ruby_text_buffer),
                         RubyAttr(attrs, "size", DefaultRubySize),
                         RubyAttr(attrs, "position", "before"),
                         RubyAttr(attrs, "offset", 0),
                         RubyAttr(attrs, "spacing", 0),
                         RubyAttr(attrs, "aspect_adjust", DefaultRubyAspect)),
         LAMBDA ruby_content :
            Ok([st EXCEPT !.current_text_contents = Some(Append(Get(@), ruby_content)),
                          !.current_ruby_attrs = None,
                          !.ruby_base_buffer = None,
                          !.ruby_text_buffer = None]))

end_Ruby(st) ==
    IF IsNone(st.current_text_contents) \/ IsNone(st.current_ruby_attrs) THEN Ok(st)
    ELSE IF IsNone(st.ruby_base_buffer) \/ IsNone(st.ruby_text_buffer) THEN Ok(st)
    ELSE end_Ruby_content(st, Get(st.current_ruby_attrs))

end_HGroup(st) ==
    IF IsNone(st.current_text_contents) \/ IsNone(st.hgroup_buffer) THEN Ok(st)
    ELSE Ok([st EXCEPT
            !.current_text_contents = Some(Append(Get(@), ContentHGroup(Get(st.hgroup_buffer)))),
            !.hgroup_buffer = None])

end_Rotate(st) ==
    IF IsNone(st.current_text_contents) \/ IsNone(st.rotate_buffer) THEN Ok(st)
    ELSE Ok([st EXCEPT
            !.current_text_contents =
                Some(Append(Get(@), ContentRotate(Get(st.rotate_buffer), st.rotate_direction))),
            !.rotate_buffer = None,
            !.rotate_direction = None])

handle_end(st, name) ==
    IF name \in _SIMPLE_TEXT_TAGS /\ st.current_simple_tag = Some(name)
    THEN end_simple(st, name)
    ELSE IF name = "Font" THEN end_Font(st)
    ELSE IF name = "Text" THEN end_Text(st)
    ELSE IF name = "Subtitle" THEN end_Subtitle(st)
    ELSE IF name = "Ruby" THEN end_Ruby(st)
    ELSE IF name = "HGroup" THEN end_HGroup(st)
    ELSE IF name = "Rotate" THEN end_Rotate(st)
    ELSE Ok(st)

AppendTo(buffer, data) == Some(Get(buffer) \o data)

\* handle_char looking at the HGroup and Rotate buffers before the Ruby ones.
handle_char_groups_first(st, data) ==
    IF ~IsNone(st.current_simple_tag)
    THEN Ok([st EXCEPT !.simple_buffer = @ \o data])
    ELSE IF IsNone(st.current_text_contents) THEN Ok(st)
    ELSE IF ~IsNone(st.hgroup_buffer)
         THEN Ok([st EXCEPT !.hgroup_buffer = AppendTo(@, data)])
    ELSE IF ~IsNone(st.rotate_buffer)
         THEN Ok([st EXCEPT !.rotate_buffer = AppendTo(@, data)])
    ELSE IF ~IsNone(st.ruby_text_buffer)
         THEN Ok([st EXCEPT !.ruby_text_buffer = AppendTo(@, data)])
    ELSE IF ~IsNone(st.ruby_base_buffer)
         THEN Ok([st EXCEPT !.ruby_base_buffer = AppendTo(@, data)])
    ELSE IF st.inline_font_stack # <<>>
         THEN Ok([st EXCEPT !.inline_font_buffers[Len(st.inline_font_buffers)] = @ \o data])
    ELSE Ok([st EXCEPT !.plain_buffer = @ \o data])

handle_char(st, data) ==
    IF ~IsNone(st.current_simple_tag)
    THEN Ok([st EXCEPT !.simple_buffer = @ \o data])
    ELSE IF IsNone(st.current_text_contents) THEN Ok(st)
    ELSE IF ~IsNone(st.ruby_text_buffer)
         THEN Ok([st EXCEPT !.ruby_text_buffer = AppendTo(@, data)])
    ELSE IF ~IsNone(st.ruby_base_buffer)
         THEN Ok([st EXCEPT !.ruby_base_buffer = AppendTo(@, data)])
    ELSE IF ~IsNone(st.hgroup_buffer)
         THEN Ok([st EXCEPT !.hgroup_buffer = AppendTo(@, data)])
    ELSE IF ~IsNone(st.rotate_buffer)
         THEN Ok([st EXCEPT !.rotate_buffer = AppendTo(@, data)])
    ELSE IF st.inline_font_stack # <<>>
         THEN Ok([st EXCEPT !.inline_font_buffers[Len(st.inline_font_buffers)] = @ \o data])
    ELSE Ok([st EXCEPT !.plain_buffer = @ \o data])

\* The end of parse_cinecanvas_xml: the DCSubtitle, or the exception raised
\* for missing metadata. uuid is what str(uuid4()) gives if it is called.
\* The return of parse_cinecanvas_xml giving every document a generated id.
finalize_generated_id(st, uuid) ==
    IF IsNone(st.title) \/ IsNone(st.reel) \/ IsNone(st.language) THEN Raise("ValueError")
    ELSE Ok([id |-> uuid,
             title |-> Get(st.title),
             reel |-> Get(st.reel),
             language |-> Get(st.language),
             contents |-> st.contents,
             fonts |-> st.fonts,
             version |-> IF IsNone(st.version) THEN "1.1" ELSE Get(st.version)])

\* The return of parse_cinecanvas_xml asking for a title and a reel only.
finalize_without_language(st, uuid) ==
    IF IsNone(st.title) \/ IsNone(st.reel) THEN Raise("ValueError")
    ELSE Ok([id |-> Get(OrElse(st.subtitle_id, Some(uuid))),
             title |-> Get(st.title),
             reel |-> Get(st.reel),
             language |-> IF IsNone(st.language) THEN <<>> ELSE Get(st.language),
             contents |-> st.contents,
             fonts |-> st.fonts,
             version |-> IF IsNone(st.version) THEN "1.1" ELSE Get(st.version)])

finalize(st, uuid) ==
    IF IsNone(st.title) \/ IsNone(st.reel) \/ IsNone(st.language) THEN Raise("ValueError")
    ELSE Ok([id |-> Get(OrElse(st.subtitle_id, Some(uuid))),
             title |-> Get(st.title),
             reel |-> Get(st.reel),
             language |-> Get(st.language),
             contents |-> st.contents,
             fonts |-> st.fonts,
             version |-> IF IsNone(st.version) THEN "1.1" ELSE Get(st.version)])

\* The events of the expat stream of a document.
StartEvent(name, attrs) == [type |-> "start", name |-> name, attrs |-> attrs]

EndEvent(name) == [type |-> "end", name |-> name]

CharEvent(data) == [type |-> "char", data |-> data]

----------------------------------------------------------------------------
(* The conversion engine (main.py). An ASS item is a tuple whose first      *)
(* element names its kind; the list of items of an event is what main.py    *)
(* hands to ass_item_to_text, whose textual grammar is not modelled.        *)
(* Pixel positions and effect sizes are kept in hundredths, percentages in  *)
(* hundredths of a percent, and the arithmetic on them is exact.            *)
(* Every content kind is modelled.                                          *)
(* The position of a ruby overlay, which the code leaves unrounded, is kept *)
(* to the nearest hundredth.                                                *)

AssTagListOpening == <<"{">>
AssTagListEnding == <<"}">>
AssText(text) == <<"text", text>>
AssValidTagAlignment(n) == <<"an", n>>
AssValidTagPosition(x, y) == <<"pos", x, y>>
AssValidTagFade(in, out) == <<"fad", in, out>>
AssValidTagPrimaryColor(r, g, b) == <<"1c", r, g, b>>
AssValidTagPrimaryAlpha(a) == <<"1a", a>>
AssValidTagOutlineColor(r, g, b) == <<"3c", r, g, b>>
AssValidTagOutlineAlpha(a) == <<"3a", a>>
AssValidTagBackgroundColor(r, g, b) == <<"4c", r, g, b>>
AssValidTagBackgroundAlpha(a) == <<"4a", a>>
AssValidTagFontSize(size) == <<"fs", size>>
AssValidTagFontName(name) == <<"fn", name>>
AssValidTagBold(weight) == <<"b", weight>>
AssValidTagItalic(enabled) == <<"i", enabled>>
AssValidTagUnderline(enabled) == <<"u", enabled>>
AssValidTagShadow(depth) == <<"shad", depth>>
AssValidTagBorder(size) == <<"bord", size>>
AssValidTagLetterSpacing(spacing) == <<"fsp", spacing>>
AssValidTagFontXScale(scale) == <<"fscx", scale>>
AssValidTagFontYScale(scale) == <<"fscy", scale>>
AssValidTagResetStyle(style) == <<"r", style>>
AssValidTagZRotation(short, angle) == <<"frz", short, angle>>

Max(a, b) == IF a >= b THEN a ELSE b

Min(a, b) == IF a <= b THEN a ELSE b

\* round(): n/d to the nearest integer, a tie to the even one (d > 0).
RoundDiv(n, d) ==
    LET q == n \div d
        r == n - q * d
    IN  IF 2 * r < d THEN q
        ELSE IF 2 * r > d THEN q + 1
        ELSE IF q % 2 = 0 THEN q ELSE q + 1

\* TextAlignH.to_shift
to_shift(align_h) == IF align_h = "left" THEN -1 ELSE IF align_h = "right" THEN 1 ELSE 0

\* get_alignment: text.align_h.to_shift() raises AttributeError on None.
get_alignment(text) ==
    LET row == IF text.align_v = Some("center") THEN 5
               ELSE IF text.align_v = Some("bottom") THEN 2
               ELSE IF text.align_v = Some("top") THEN 8
               ELSE 0
    IN  IF row = 0 THEN Ok(2)
        ELSE IF IsNone(text.align_h) THEN Raise("AttributeError")
        ELSE Ok(row + to_shift(Get(text.align_h)))

color_to_ass_color(color, effect) ==
    IF effect = "border"
    THEN <<AssValidTagOutlineColor(color.r, color.g, color.b),
           AssValidTagOutlineAlpha(255 - color.a)>>
    ELSE IF effect = "shadow"
    THEN <<AssValidTagBackgroundColor(color.r, color.g, color.b),
           AssValidTagBackgroundAlpha(255 - color.a)>>
    ELSE <<AssValidTagPrimaryColor(color.r, color.g, color.b),
           AssValidTagPrimaryAlpha(255 - color.a)>>

base_width == 1920

base_height == 1080

\* base_ratio 0.08 and max_ratio 0.2, in hundredths.
base_ratio == 8

max_ratio == 20

\* calculate_effect_size without its last clamp, min(effect_size, max_size).
calculate_effect_size_uncapped(font_size, width, height) ==
    LET wide == width * base_height <= height * base_width
        sn == IF wide THEN width ELSE height
        sd == IF wide THEN base_width ELSE base_height
        scaled == font_size * base_ratio * sn
    IN  IF scaled < 100 * 100 * sd THEN 100 ELSE RoundDiv(scaled, 100 * sd)

\* calculate_effect_size raising a small effect to max_size, not to min_size.
calculate_effect_size_raised_to_max(font_size, width, height) ==
    LET wide == width * base_height <= height * base_width
        sn == IF wide THEN width ELSE height
        sd == IF wide THEN base_width ELSE base_height
        scaled == font_size * base_ratio * sn
    IN  IF scaled < 100 * 100 * sd \/ scaled > font_size * max_ratio * sd
        THEN RoundDiv(font_size * max_ratio, 100)
        ELSE RoundDiv(scaled, 100 * sd)

\* calculate_effect_size; font_size and the result are in hundredths.
\* scale = min(width / 1920, height / 1080) = sn / sd, so that
\* effect_size = scaled / (100 * sd); min_size is 1.0 and max_size is
\* font_size * 0.2. The comparisons are cross-multiplied.
calculate_effect_size(font_size, width, height) ==
    LET wide == width * base_height <= height * base_width
        sn == IF wide THEN width ELSE height
        sd == IF wide THEN base_width ELSE base_height
        scaled == font_size * base_ratio * sn
        below_min == scaled < 100 * 100 * sd
        above_max == IF below_min THEN 100 * 100 > font_size * max_ratio
                     ELSE scaled > font_size * max_ratio * sd
    IN  IF above_max THEN RoundDiv(font_size * max_ratio, 100)
        ELSE IF below_min THEN 100
        ELSE RoundDiv(scaled, 100 * sd)

Clamp(lo, v, hi) == Max(lo, Min(v, hi))

\* calculate_positioning's axis with the center anchor clamped like the others.
position_axis_center_unsigned(p, extent, anchor) ==
    IF anchor \in {Some("right"), Some("bottom")}
    THEN RoundDiv(10000 * extent - Clamp(0, p, 10000) * extent, 100)
    ELSE IF anchor = Some("center")
    THEN RoundDiv(5000 * extent + Clamp(0, p, 10000) * extent, 100)
    ELSE RoundDiv(Clamp(0, p, 10000) * extent, 100)

\* One axis of calculate_positioning: the pixel coordinate, in hundredths,
\* of percentage p (hundredths of a percent) on an axis of the given extent.
position_axis(p, extent, anchor) ==
    IF anchor \in {Some("right"), Some("bottom")}
    THEN RoundDiv(10000 * extent - Clamp(0, p, 10000) * extent, 100)
    ELSE IF anchor = Some("center")
    THEN RoundDiv(5000 * extent + Clamp(-10000, p, 10000) * extent, 100)
    ELSE RoundDiv(Clamp(0, p, 10000) * extent, 100)

calculate_positioning(position_x, position_y, width, height, align_h, align_v) ==
    <<position_axis(position_x, width, align_h), position_axis(position_y, height, align_v)>>

\* calculate_ruby_ass_offset: (final_x, final_y). base_w, base_h, buffer and
\* the result are lengths in one common unit, ruby_scale is in hundredths.
\* The multipliers of align_map are doubled: 0, 1, 2 for 0.0, 0.5, 1.0. The
\* extent of the ruby along the line (ruby_w, or ruby_h for a vertical run)
\* is computed by the code from num_ruby_chars and is_cjk_ruby and not used.
\* The unit of the lengths is fine enough for the divisions to be exact.
calculate_ruby_ass_offset(base_w, base_h, ruby_scale, num_ruby_chars, alignment, direction, ruby_pos, buffer, is_cjk_ruby) ==
    LET anchor_x_mult == IF alignment \in 1..9 THEN (alignment - 1) % 3 ELSE 1
        anchor_y_mult == IF alignment \in 1..9 THEN 2 - ((alignment - 1) \div 3) ELSE 2
        base_center_x == (base_w * (1 - anchor_x_mult)) \div 2
        base_center_y == (base_h * (1 - anchor_y_mult)) \div 2
        dist == IF direction = "horizontal"
                THEN (base_h \div 2) + buffer + (base_h \div 200) * ruby_scale
                ELSE (base_w \div 2) + buffer + (base_w \div 200) * ruby_scale
        push_x == IF direction = "horizontal" THEN 0
                  ELSE IF ruby_pos = "before" THEN dist ELSE -dist
        push_y == IF direction # "horizontal" THEN 0
                  ELSE IF ruby_pos = "before" THEN -dist ELSE dist
    IN  <<base_center_x + push_x, base_center_y + push_y>>

\* content.replace("\n", "\\N")
RECURSIVE ReplaceNewlines(_)
ReplaceNewlines(s) ==
    IF s = <<>> THEN <<>>
    ELSE (IF Head(s) = "\n" THEN <<"\\", "N">> ELSE <<Head(s)>>) \o ReplaceNewlines(Tail(s))

\* "".join(map(lambda char: f"{char}\\N", list(content)))
RECURSIVE BreakAfterEach(_)
BreakAfterEach(s) ==
    IF s = <<>> THEN <<>>
    ELSE <<Head(s), "\\", "N">> \o BreakAfterEach(Tail(s))

make_directional_text(content, direction) ==
    IF direction = "vertical" THEN AssText(BreakAfterEach(ReplaceNewlines(content)))
    ELSE AssText(ReplaceNewlines(content))

\* ASSConverter.generate_tags_from_font. override_font_size is None or a size
\* in hundredths; a font size is in points.
generate_tags_from_font(self, final_font, root, override_font_size) ==
    LET size == IF ~IsNone(override_font_size) /\ Get(override_font_size) # 0
                THEN Get(override_font_size) ELSE Get(final_font.size) * 100
        renamed == ~IsNone(root) /\ Get(root).font # final_font.font
        root_name == IF IsNone(root) THEN None ELSE Get(root).font
        chosen == IF renamed THEN final_font.font ELSE root_name
        final_font_name == IF IsNone(chosen) \/ Get(chosen) = <<>> THEN final_font.font
                           ELSE chosen
        weight == Get(final_font.weight)
        effect == Get(final_font.effect)
        eff_amount == calculate_effect_size(size, self._w, self._h)
    IN  [tags |->
            color_to_ass_color(Get(final_font.color), "none")
            \o <<AssValidTagFontSize(size)>>
            \o (IF renamed THEN <<AssValidTagFontName(Get(final_font.font))>> ELSE <<>>)
            \o (IF weight = "normal" THEN <<AssValidTagBold(0)>>
                ELSE IF weight = "bold" THEN <<AssValidTagBold(1)>> ELSE <<>>)
            \o <<AssValidTagItalic(Get(final_font.italic)),
                 AssValidTagUnderline(Get(final_font.underlined))>>
            \o (IF effect # "none"
                THEN color_to_ass_color(Get(final_font.effect_color), effect)
                     \o (IF effect = "shadow" THEN <<AssValidTagShadow(eff_amount)>>
                         ELSE <<AssValidTagBorder(eff_amount)>>)
                ELSE <<>>),
         name |-> Get(final_font_name)]

format_parts(generated, final_font, content, text, direction, additional_tags) ==
    [tags |->
        generated.tags
        \o (IF Get(final_font.spacing) # 0
            THEN <<AssValidTagLetterSpacing(Get(final_font.spacing))>> ELSE <<>>)
        \o (IF Get(final_font.aspect_adjust) # 0
            THEN (IF text.direction = "horizontal"
                  THEN <<AssValidTagFontXScale(Get(final_font.aspect_adjust))>>
                  ELSE <<AssValidTagFontYScale(Get(final_font.aspect_adjust))>>)
            ELSE <<>>)
        \o (IF IsNone(additional_tags) THEN <<>> ELSE Get(additional_tags)),
     text |-> make_directional_text(content, direction),
     style |-> generated.name]

\* The Content (plain str) branch of format_text.
format_content(self, content, text, base, root, force_direction, additional_tags) ==
    Then(maybe_merge_font(base, root), LAMBDA final_font :
        Ok(format_parts(generate_tags_from_font(self, final_font, root, None),
                        final_font, content, text,
                        IF IsNone(force_direction) THEN text.direction
                        ELSE Get(force_direction),
                        additional_tags)))

\* rotation = 90 if content.direction == "left" else 270
rotation(content) == IF content.direction = Some("left") THEN 90 ELSE 270

\* ASSConverter.format_text: (tags, text, style name), or the exception.
format_text(self, content, text, base, root, force_direction, additional_tags) ==
    IF content.kind = "Content"
    THEN format_content(self, content.text, text, base, root, force_direction, additional_tags)
    ELSE IF content.kind = "ContentWithFont"
    THEN Then(maybe_merge_font(Some(content.font), root), LAMBDA final_font :
            format_content(self, content.content, text, Some(final_font), root, None, None))
    ELSE IF content.kind = "ContentWithRuby"
    THEN format_content(self, content.base, text, base, root, None, None)
    ELSE IF content.kind = "ContentSpacing"
    THEN Then(maybe_merge_font(base, root), LAMBDA final_font :
            Ok([tags |-> <<AssValidTagResetStyle(Get(final_font.font)),
                           AssValidTagFontXScale(content.size)>>,
                text |-> AssText(<<"\\", "h">>),
                style |-> Get(final_font.font)]))
    ELSE IF content.kind = "ContentHGroup"
    THEN format_content(self, content.text, text, base, root, Some("horizontal"), None)
    ELSE IF content.kind = "ContentRotate"
    THEN format_content(self, content.text, text, base, root, None,
                        Some(<<AssValidTagZRotation(FALSE, rotation(content))>>))
    ELSE Raise("TypeError")

\* The lengths format_ruby_text hands to calculate_ruby_ass_offset are
\* multiples of 1 / RubyUnit(size) pixels: base_w = w / size * 0.8,
\* base_h = h / size * 1.6, buffer = size / 100 * (offset * size).
RubyUnit(size) == 10000 * size

\* The tags, text and style of the overlay of a ContentWithRuby whose font
\* is final_font, of a size that is not 0.
ruby_parts(self, content, text, root_pos, alignment, final_font, root, shift) ==
    [tags |->
        generate_tags_from_font(self, final_font, root,
                                Some(Get(final_font.size) * content.size)).tags
        \o (IF content.spacing # 0 THEN <<AssValidTagLetterSpacing(content.spacing)>>
            ELSE <<>>)
        \o (IF content.aspect_adjust # 0
            THEN (IF text.direction = "horizontal"
                  THEN <<AssValidTagFontXScale(content.aspect_adjust)>>
                  ELSE <<AssValidTagFontYScale(content.aspect_adjust)>>)
            ELSE <<>>)
        \o <<AssValidTagPosition(
                root_pos[1] + RoundDiv(shift[1], RubyUnit(Get(final_font.size)) \div 100),
                root_pos[2] + RoundDiv(shift[2], RubyUnit(Get(final_font.size)) \div 100))>>,
     text |-> make_directional_text(content.ruby, text.direction),
     style |-> generate_tags_from_font(self, final_font, root,
                                       Some(Get(final_font.size) * content.size)).name]

ruby_shift(self, content, text, alignment, size) ==
    calculate_ruby_ass_offset(8000 * self._w, 16000 * self._h, content.size,
                              Len(content.ruby), alignment, text.direction, "before",
                              size * size * size * content.offset, FALSE)

\* ASSConverter.format_ruby_text: None for an item that is no ContentWithRuby,
\* else the overlay, or the exception.
format_ruby_text(self, content, text, root_pos, alignment, base, root) ==
    IF content.kind # "ContentWithRuby" THEN Ok(None)
    ELSE Then(maybe_merge_font(base, root), LAMBDA final_font :
            IF IsNone(final_font.size) THEN Raise("TypeError")
            ELSE IF Get(final_font.size) = 0 THEN Raise("ZeroDivisionError")
            ELSE Ok(Some(ruby_parts(self, content, text, root_pos, alignment, final_font, root,
                                    ruby_shift(self, content, text, alignment,
                                               Get(final_font.size))))))

\* Dialogue(...); effect is "" unless given.
Dialogue(start, end, style, text, layer, effect) ==
    [start |-> start, end |-> end, style |-> style, text |-> text, layer |-> layer,
     effect |-> effect]

\* CineTiming.to_timedelta, in milliseconds.
to_timedelta(t) == t.hours * 3600000 + t.minutes * 60000 + t.seconds * 1000 + t.miliseconds

\* The loop of convert over the content items of one run: the items of the
\* line so far, the style name of the first item and the ruby overlays.
\* The line after one more item: part is what format_text gave for it and
\* ruby_text_info what format_ruby_text gave.
next_line(self, line, part, ruby_text_info) ==
    [final_tags |-> line.final_tags \o <<AssTagListOpening>> \o part.tags
                        \o <<AssTagListEnding, part.text>>,
     prefer_style_name |-> IF IsNone(line.prefer_style_name) THEN Some(part.style)
                           ELSE line.prefer_style_name,
     ruby_text_queues |->
        IF ~IsNone(ruby_text_info) /\ self._process_ruby
        THEN Append(line.ruby_text_queues,
                Dialogue(line.start, line.end,
                         IF Get(ruby_text_info).style # <<>>
                         THEN Some(Get(ruby_text_info).style)
                         ELSE IF IsNone(line.prefer_style_name) THEN Some(part.style)
                         ELSE line.prefer_style_name,
                         <<AssTagListOpening, AssValidTagAlignment(line.alignment)>>
                            \o Get(ruby_text_info).tags
                            \o <<AssTagListEnding, Get(ruby_text_info).text>>,
                         line.idx + 100, "Ruby"))
        ELSE line.ruby_text_queues,
     start |-> line.start, end |-> line.end, alignment |-> line.alignment,
     pos |-> line.pos, idx |-> line.idx]

RECURSIVE format_run(_, _, _, _, _)
format_run(self, contents, sub, font, line) ==
    IF contents = <<>> THEN Ok(line)
    ELSE Then(format_text(self, Head(contents), sub, font, font, None, None), LAMBDA part :
         Then(format_ruby_text(self, Head(contents), sub, line.pos, line.alignment,
                               font, font),
              LAMBDA ruby_text_info :
                format_run(self, Tail(contents), sub, font,
                           next_line(self, line, part, ruby_text_info))))

\* The tags every line of a subtitle starts with.
base_ass_tags(subtitle) ==
    IF to_miliseconds(subtitle.fade_in) > 0 \/ to_miliseconds(subtitle.fade_out) > 0
    THEN <<AssValidTagFade(to_miliseconds(subtitle.fade_in),
                           to_miliseconds(subtitle.fade_out))>>
    ELSE <<>>

\* The line of run idx before its first content item.
line_head(subtitle, idx, alignment, pos) ==
    [final_tags |-> <<AssTagListOpening>> \o base_ass_tags(subtitle)
                        \o <<AssValidTagAlignment(alignment),
                             AssValidTagPosition(pos[1], pos[2]),
                             AssTagListEnding>>,
     prefer_style_name |-> None,
     ruby_text_queues |-> <<>>,
     start |-> to_timedelta(subtitle.start), end |-> to_timedelta(subtitle.end),
     alignment |-> alignment, pos |-> pos, idx |-> idx]

\* convert's loop body extending the events with the overlays before it
\* appends the primary event.
convert_run_overlays_first(self, subtitle, idx) ==
    LET sub == subtitle.contents[idx]
    IN  Then(get_alignment(sub), LAMBDA alignment :
        Then(format_run(self, sub.contents, sub,
                        IF ~IsNone(subtitle.font) THEN subtitle.font ELSE sub.font,
                        line_head(subtitle, idx, alignment,
                                  calculate_positioning(sub.position_h, sub.position_v,
                                                        self._w, self._h,
                                                        sub.align_h, sub.align_v))),
             LAMBDA line :
                Ok(line.ruby_text_queues
                   \o <<Dialogue(line.start, line.end, line.prefer_style_name,
                                 line.final_tags, idx, "")>>)))

\* The body of convert's loop over the runs of a subtitle, for run idx: the
\* events it appends (the primary event, then the ruby overlays), or the
\* exception.
convert_run(self, subtitle, idx) ==
    LET sub == subtitle.contents[idx]
    IN  Then(get_alignment(sub), LAMBDA alignment :
        Then(format_run(self, sub.contents, sub,
                        IF ~IsNone(subtitle.font) THEN subtitle.font ELSE sub.font,
                        line_head(subtitle, idx, alignment,
                                  calculate_positioning(sub.position_h, sub.position_v,
                                                        self._w, self._h,
                                                        sub.align_h, sub.align_v))),
             LAMBDA line :
                Ok(<<Dialogue(line.start, line.end, line.prefer_style_name,
                              line.final_tags, idx, "")>>
                   \o line.ruby_text_queues)))

\* convert's two loops from run idx of subtitle s on: the events appended to
\* the document before the loops end or an exception leaves them.
RECURSIVE convert_from(_, _, _, _)
RECURSIVE convert_next(_, _, _, _, _)
convert_from(self, s, idx, events) ==
    IF s > Len(self._subtitle.contents) THEN [events |-> events, err |-> None]
    ELSE IF idx > Len(self._subtitle.contents[s].contents)
    THEN convert_from(self, s + 1, 1, events)
    ELSE convert_next(self, s, idx, events, convert_run(self, self._subtitle.contents[s], idx))

\* r is what the body of the loop gave for run idx of subtitle s.
convert_next(self, s, idx, events, r) ==
    IF ~r.ok THEN [events |-> events, err |-> Some(r.err)]
    ELSE convert_from(self, s, idx + 1, events \o r.val)

\* ASSConverter.__init__ once the document is parsed.
ASSConverter(subtitle, width, height) ==
    [_subtitle |-> subtitle, events |-> <<>>, _is_done |-> FALSE,
     _w |-> width, _h |-> height, _process_ruby |-> FALSE]

\* A convert() that takes the subtitles out of the tree as it processes them.
converted_consuming_subtitles(self, r) ==
    [self |-> [self EXCEPT !.events = r.events, !._is_done = IsNone(r.err),
                           !._subtitle.contents = <<>>],
     err |-> r.err]

\* ASSConverter.convert: the converter after the call and what it raised.
converted(self, r) ==
    [self |-> [self EXCEPT !.events = r.events, !._is_done = IsNone(r.err)], err |-> r.err]

\* convert() without the check of _is_done.
convert_again(self) == converted(self, convert_from(self, 1, 1, <<>>))

convert(self) ==
    IF self._is_done THEN [self |-> self, err |-> None]
    ELSE converted(self, convert_from(self, 1, 1, <<>>))

\* The setter storing the truth value of whatever it is given.
process_ruby_setter_truthy(self, data) ==
    [self EXCEPT !._process_ruby = data[2] \notin {"False", "None", "0", "''"}]

\* The process_ruby setter; data is a Python value as (type name, repr).
process_ruby_setter(self, data) ==
    IF data[1] = "bool" THEN [self EXCEPT !._process_ruby = (data[2] = "True")] ELSE self

\* ASSConverter.save: r is what its call of convert() gave and file what the
\* output file held; the file is opened and written only after convert()
\* returned.
save(r, file) ==
    [self |-> r.self, err |-> r.err,
     file |-> IF IsNone(r.err) THEN Some(r.self.events) ELSE file]

----------------------------------------------------------------------------
(* The timing inputs: every tick count up to MaxTick as a bare integer and *)
(* as the last field of a timecode, fractional timecodes, short arbitrary  *)
(* strings, each with and without surrounding blanks and trailing text.    *)

MaxTick == 255

MaxField == 1

MaxFrac == 3

MaxJunk == 3

TickRange == 0..MaxTick

FieldRange == 0..MaxField

BareForm(t) == Dec(t)

ColonForm(h, m, s, t) ==
    Dec(h) \o <<":">> \o ZFill(Dec(m), 2) \o <<":">> \o ZFill(Dec(s), 2)
           \o <<":">> \o ZFill(Dec(t), 3)

DotForm(h, m, s, f) ==
    Dec(h) \o <<":">> \o ZFill(Dec(m), 2) \o <<":">> \o ZFill(Dec(s), 2)
           \o <<".">> \o f

Fractions == SeqsUpTo({"0", "5"}, MaxFrac) \ {<<>>}

Suffixes == {<<>>, <<"a">>, <<":", "9">>, <<".", "5">>, <<" ">>}

Prefixes == {<<>>, <<" ">>}

TimingBodies ==
    {BareForm(t) : t \in TickRange}
    \cup {ZFill(BareForm(t), 3) : t \in TickRange}
    \cup {ColonForm(h, m, s, t) : h \in FieldRange, m \in FieldRange,
                                  s \in FieldRange, t \in TickRange}
    \cup {DotForm(h, m, s, f) : h \in FieldRange, m \in FieldRange,
                                s \in FieldRange, f \in Fractions}
    \cup SeqsUpTo({"1", ":", ".", "a"}, MaxJunk)

TimingInputs == {p \o b \o x : p \in Prefixes, b \in TimingBodies, x \in Suffixes}

IdleTiming == timing_value = <<>> /\ timing_result = NotRun

IdleColor == hex_data = <<>> /\ color_result = NotRun

IdleFont ==
    /\ base_font = None
    /\ root_font = None
    /\ merge_result = NotRun
    /\ parent_result = NotRun

IdleConvert ==
    /\ xml_content = <<>>
    /\ state = _ParserState
    /\ parse_pos = 0
    /\ converter = None
    /\ raised = None
    /\ parsed = <<>>
    /\ output_file = None

IdleGeometry ==
    /\ position_args = <<>>
    /\ position_result = NotRun
    /\ effect_frame = <<>>
    /\ effect_calls = <<>>

IdleFontFile ==
    /\ font_file = <<>>
    /\ font_calls = <<>>

IdlePayload ==
    /\ directional_args = <<>>
    /\ directional_result = NotRun

InitTiming ==
    /\ timing_value \in TimingInputs
    /\ timing_result = NotRun
    /\ IdleColor
    /\ IdleFont
    /\ IdleConvert
    /\ IdleFontFile
    /\ IdlePayload
    /\ IdleGeometry

\* One call of CineTiming.from_xml on the drawn argument.
FromXml ==
    /\ ~HasRun(timing_result)
    /\ timing_result' = from_xml(timing_value)
    /\ UNCHANGED <<timing_value, colorVars, fontVars, convertVars, fontFileVars, payloadVars, geometryVars>>

NextTiming == FromXml

InitColor ==
    /\ hex_data \in ColorInputs
    /\ color_result = NotRun
    /\ IdleTiming
    /\ IdleFont
    /\ IdleConvert
    /\ IdleFontFile
    /\ IdlePayload
    /\ IdleGeometry

\* One call of Color.from_hex on the drawn argument.
FromHex ==
    /\ ~HasRun(color_result)
    /\ color_result' = from_hex(hex_data)
    /\ UNCHANGED <<hex_data, timingVars, fontVars, convertVars, fontFileVars, payloadVars, geometryVars>>

NextColor == FromHex

SpecColor == InitColor /\ [][NextColor]_vars

InitFont ==
    /\ base_font \in OptionOf(ResolvedFonts \cup LocalOverrides)
    /\ root_font \in OptionOf(ResolvedFonts \cup InheritedOverrides)
    /\ merge_result = NotRun
    /\ parent_result = NotRun
    /\ IdleTiming
    /\ IdleColor
    /\ IdleConvert
    /\ IdleFontFile
    /\ IdlePayload
    /\ IdleGeometry

\* One call of maybe_merge_font on the drawn arguments.
MaybeMergeFont ==
    /\ ~HasRun(merge_result)
    /\ merge_result' = maybe_merge_font(base_font, root_font)
    /\ UNCHANGED <<base_font, root_font, parent_result, timingVars, colorVars, convertVars, fontFileVars, payloadVars, geometryVars>>

\* One call of base_font.with_parent(root_font), an override on a resolved Font.
WithParent ==
    /\ ~HasRun(parent_result)
    /\ IsFontOverride(base_font)
    /\ IsFont(root_font)
    /\ parent_result' = with_parent(Get(base_font), Get(root_font))
    /\ UNCHANGED <<base_font, root_font, merge_result, timingVars, colorVars, convertVars, fontFileVars, payloadVars, geometryVars>>

NextFont == MaybeMergeFont \/ WithParent

SpecFont == InitFont /\ [][NextFont]_vars

SpecTiming == InitTiming /\ [][NextTiming]_vars

----------------------------------------------------------------------------
(* The geometry functions of main.py on drawn arguments.                    *)

\* Percentages, in hundredths of a percent, inside, on and beyond the limits
\* of both clamps.
MaxPercent == 15000

PercentInputs ==
    {-MaxPercent, -10001, -10000, -9999, -5000, -1, 0, 1, 2050, 3333, 5000, 9999,
     10000, 10001, MaxPercent}

\* (width, height) of the frames of the geometry calls.
GeometryFrames == {<<1920, 1080>>, <<2048, 858>>, <<1998, 1080>>}

PositionInputs ==
    {[position_x |-> x, position_y |-> y, width |-> size[1], height |-> size[2],
      align_h |-> h, align_v |-> v] :
        x \in PercentInputs, y \in PercentInputs, size \in GeometryFrames,
        h \in OptionOf({"left", "center", "right"}),
        v \in OptionOf({"top", "center", "bottom"})}

InitPosition ==
    /\ position_args \in PositionInputs
    /\ position_result = NotRun
    /\ effect_frame = <<>>
    /\ effect_calls = <<>>
    /\ IdleTiming
    /\ IdleColor
    /\ IdleFont
    /\ IdleConvert
    /\ IdleFontFile
    /\ IdlePayload

\* One call of calculate_positioning on the drawn arguments.
CalculatePositioning ==
    /\ ~HasRun(position_result)
    /\ position_result' = Ok(calculate_positioning(
            position_args.position_x, position_args.position_y,
            position_args.width, position_args.height,
            position_args.align_h, position_args.align_v))
    /\ UNCHANGED <<position_args, effect_frame, effect_calls,
                   timingVars, colorVars, fontVars, convertVars, fontFileVars, payloadVars>>

NextPosition == CalculatePositioning

SpecPosition == InitPosition /\ [][NextPosition]_vars

\* Font sizes, in hundredths of a point: the whole sizes up to MaxFontSize,
\* fractional ones (a ruby's size is the font size times its scale), and the
\* larger sizes of real documents.
MaxFontSize == 20

MaxEffectCalls == 2

FontSizeInputs ==
    {100 * k : k \in 1..MaxFontSize} \cup {1, 50, 499, 503, 2100, 4200, 7200}

EffectFrames == {<<1920, 1080>>, <<640, 480>>, <<2048, 858>>, <<7680, 4320>>}

InitEffect ==
    /\ effect_frame \in EffectFrames
    /\ effect_calls = <<>>
    /\ position_args = <<>>
    /\ position_result = NotRun
    /\ IdleTiming
    /\ IdleColor
    /\ IdleFont
    /\ IdleConvert
    /\ IdleFontFile
    /\ IdlePayload

\* One more call of calculate_effect_size for the frame, on a drawn font size.
CalculateEffectSize ==
    /\ Len(effect_calls) < MaxEffectCalls
    /\ \E font_size \in FontSizeInputs :
          effect_calls' = Append(effect_calls,
              [font_size |-> font_size,
               result |-> calculate_effect_size(font_size, effect_frame[1], effect_frame[2])])
    /\ UNCHANGED <<effect_frame, position_args, position_result,
                   timingVars, colorVars, fontVars, convertVars, fontFileVars, payloadVars>>

NextEffect == CalculateEffectSize

SpecEffect == InitEffect /\ [][NextEffect]_vars

----------------------------------------------------------------------------
(* The converter on whole documents. A document is the sequence of expat   *)
(* events of its XML text. The documents are of three families: a          *)
(* DCSubtitle with its metadata and one Subtitle with one Text run of plain *)
(* and inline-font pieces, optionally wrapped in a root Font; one or two    *)
(* Subtitles of up to MaxRuns runs each, with and without Ruby elements,    *)
(* under a root Font; and one Subtitle of ManyRuns runs.                    *)

MaxPieces == 2

Text_HELLO == <<"H", "E", "L", "L", "O">>

Hex_green == <<"F", "F", "0", "0", "F", "F", "0", "0">>

Hex_red == <<"F", "F", "F", "F", "0", "0", "0", "0">>

Hex_blue == <<"8", "0", "0", "0", "0", "0", "F", "F">>

Header ==
    <<StartEvent("DCSubtitle", [Version |-> <<"1", ".", "0">>]),
      StartEvent("SubtitleID", <<>>), CharEvent(<<"i", "d", "-", "1">>), EndEvent("SubtitleID"),
      StartEvent("MovieTitle", <<>>), CharEvent(<<"T">>), EndEvent("MovieTitle"),
      StartEvent("ReelNumber", <<>>), CharEvent(<<"1">>), EndEvent("ReelNumber"),
      StartEvent("Language", <<>>), CharEvent(<<"e", "n">>), EndEvent("Language")>>

RootFontAttrs ==
    {[Id |-> <<"F">>],
     [Id |-> <<"G">>, Color |-> Hex_green, Size |-> <<"3", "0">>, Italic |-> Text_yes,
      Weight |-> Text_bold, Effect |-> Text_shadow, EffectColor |-> Hex_blue,
      Spacing |-> <<"2">>, AspectAdjust |-> <<"1", ".", "5">>]}

Time_0s == <<"0", ":", "0", "0", ":", "0", "0", ":", "0", "0", "0">>

Time_5s == <<"0", ":", "0", "0", ":", "0", "5", ":", "0", "0", "0">>

SubtitleAttrs ==
    {[TimeIn |-> Time_0s, TimeOut |-> Time_5s],
     [TimeIn |-> <<"0", "0", ":", "0", "0", ":", "0", "1", ".", "5">>,
      TimeOut |-> <<"2", "0", "0">>, FadeUpTime |-> <<"0">>, FadeDownTime |-> <<"0">>,
      SpotNumber |-> <<"7">>]}

TextAttrs ==
    {<<>>,
     [HAlign |-> Text_left, VAlign |-> Text_top,
      HPosition |-> <<"1", "0">>, VPosition |-> <<"2", "0", ".", "5">>],
     [VAlign |-> Text_bottom],
     [HAlign |-> <<"m", "i", "d">>, VAlign |-> <<"m", "i", "d">>, HPosition |-> <<"5">>],
     [HAlign |-> Text_center, VAlign |-> Text_center, VPosition |-> <<"-", "3", "0">>],
     [HAlign |-> Text_right, VAlign |-> Text_bottom, VPosition |-> <<"1", "5", "0">>,
      Direction |-> Text_vertical],
     [HAlign |-> Text_left, HPosition |-> <<"x">>]}

\* A piece of the content of a Text: character data, bare or inside an
\* inline Font element with the given attributes.
Pieces ==
    {[font |-> None, text |-> Text_HELLO],
     [font |-> None, text |-> <<"A", "\n", "B">>],
     [font |-> Some([Color |-> Hex_red]), text |-> <<"B">>],
     [font |-> Some([Face |-> <<"G">>, Size |-> <<"5", "0">>]), text |-> <<"C">>],
     [font |-> Some(<<>>), text |-> <<"D">>],
     [font |-> Some([Italic |-> Text_no, Weight |-> Text_normal, Effect |-> Text_border,
                     Underlined |-> Text_yes]),
      text |-> <<"E">>]}

RECURSIVE PieceEvents(_)
PieceEvents(pieces) ==
    IF pieces = <<>> THEN <<>>
    ELSE LET p == Head(pieces)
         IN  (IF IsNone(p.font) THEN <<CharEvent(p.text)>>
              ELSE <<StartEvent("Font", Get(p.font)), CharEvent(p.text), EndEvent("Font")>>)
             \o PieceEvents(Tail(pieces))

MakeDocument(root, subtitle, text, pieces) ==
    Header
    \o (IF IsNone(root) THEN <<>> ELSE <<StartEvent("Font", Get(root))>>)
    \o <<StartEvent("Subtitle", subtitle), StartEvent("Text", text)>>
    \o PieceEvents(pieces)
    \o <<EndEvent("Text"), EndEvent("Subtitle")>>
    \o (IF IsNone(root) THEN <<>> ELSE <<EndEvent("Font")>>)
    \o <<EndEvent("DCSubtitle")>>

SinglePieceDocuments ==
    {MakeDocument(root, subtitle, text, pieces) :
        root \in OptionOf(RootFontAttrs), subtitle \in SubtitleAttrs, text \in TextAttrs,
        pieces \in SeqsUpTo(Pieces, MaxPieces) \ {<<>>}}

\* How many runs a subtitle of the second family holds at most, and how many
\* the subtitle of the third family holds.
MaxRuns == 2

ManyRuns == 101

\* A Ruby element: its base text, its ruby text and the attributes of its Rt.
RubyEvents(base, ruby, rt) ==
    <<StartEvent("Ruby", <<>>),
      StartEvent("Rb", <<>>), CharEvent(base), EndEvent("Rb"),
      StartEvent("Rt", rt), CharEvent(ruby), EndEvent("Rt"),
      EndEvent("Ruby")>>

Rt_styled ==
    [Size |-> <<"0", ".", "3", "e", "m">>, Position |-> <<"a", "f", "t", "e", "r">>,
     Offset |-> <<"0", ".", "1", "e", "m">>, Spacing |-> <<"0", ".", "0", "5">>,
     AspectAdjust |-> <<"1", ".", "2">>]

Text_top_center == [HAlign |-> Text_center, VAlign |-> Text_top]

\* The Text elements of the second family, each with its events: a plain run,
\* a run with one Ruby between plain text, a vertical run with two Rubies, a
\* run with an inline Font and a Ruby, and a run whose VAlign comes without
\* an HAlign.
RunShapes ==
    {<<StartEvent("Text", Text_top_center), CharEvent(<<"A">>), EndEvent("Text")>>,
     <<StartEvent("Text", [HAlign |-> Text_left, VAlign |-> Text_bottom,
                           HPosition |-> <<"1", "0">>, VPosition |-> <<"5">>]),
       CharEvent(<<"X">>)>>
        \o RubyEvents(<<"K">>, <<"r", "t">>, <<>>)
        \o <<CharEvent(<<"Y">>), EndEvent("Text")>>,
     <<StartEvent("Text", [HAlign |-> Text_right, VAlign |-> Text_center,
                           Direction |-> Text_vertical])>>
        \o RubyEvents(<<"K">>, <<"r">>, Rt_styled)
        \o RubyEvents(<<"L">>, <<"s">>, [Size |-> <<"1">>])
        \o <<EndEvent("Text")>>,
     <<StartEvent("Text", Text_top_center),
       StartEvent("Font", [Face |-> <<"G">>, Size |-> <<"5", "0">>]), CharEvent(<<"C">>),
       EndEvent("Font")>>
        \o RubyEvents(<<"M">>, <<"u">>, [Position |-> <<"b", "e", "f", "o", "r", "e">>])
        \o <<EndEvent("Text")>>,
     <<StartEvent("Text", [VAlign |-> Text_bottom]), CharEvent(<<"Z">>), EndEvent("Text")>>}

RECURSIVE Flatten(_)
Flatten(seqs) == IF seqs = <<>> THEN <<>> ELSE Head(seqs) \o Flatten(Tail(seqs))

SubtitleEvents(attrs, runs) ==
    <<StartEvent("Subtitle", attrs)>> \o Flatten(runs) \o <<EndEvent("Subtitle")>>

SubtitleAttrs_first == [TimeIn |-> Time_0s, TimeOut |-> Time_5s]

SubtitleAttrs_second ==
    [TimeIn |-> <<"0", "0", ":", "0", "0", ":", "0", "6", ".", "5">>,
     TimeOut |-> <<"0", "0", ":", "0", "0", ":", "0", "8", ":", "1", "0", "0">>,
     FadeUpTime |-> <<"0">>, FadeDownTime |-> <<"0">>]

\* The document with the given header and subtitles, under the root Font F.
MakeRunsDocument(header, subtitles) ==
    header
    \o <<StartEvent("Font", [Id |-> <<"F">>])>>
    \o subtitles
    \o <<EndEvent("Font"), EndEvent("DCSubtitle")>>

\* The second subtitle of a document of two: one of its runs, twice.
SecondSubtitles ==
    {SubtitleEvents(SubtitleAttrs_second, <<run, run>>) : run \in RunShapes}

RunsDocuments ==
    {MakeRunsDocument(Header, SubtitleEvents(SubtitleAttrs_first, runs) \o second) :
        runs \in SeqsUpTo(RunShapes, MaxRuns) \ {<<>>},
        second \in {<<>>} \cup SecondSubtitles}

\* One subtitle of ManyRuns runs, the first with a Ruby, the others plain.
ManyRunsDocument ==
    MakeRunsDocument(Header,
        SubtitleEvents(SubtitleAttrs_first,
            [i \in 1..ManyRuns |->
                IF i = 1
                THEN <<StartEvent("Text", Text_top_center)>>
                     \o RubyEvents(<<"K">>, <<"r">>, <<>>) \o <<EndEvent("Text")>>
                ELSE <<StartEvent("Text", Text_top_center), CharEvent(<<"A">>),
                       EndEvent("Text")>>]))

Documents == SinglePieceDocuments \cup RunsDocuments \cup {ManyRunsDocument}

\* The header without a SubtitleID element, and with an empty and a blank one.
HeaderWithoutId == <<Header[1]>> \o SubSeq(Header, 5, Len(Header))

HeaderWithEmptyId ==
    <<Header[1], StartEvent("SubtitleID", <<>>), EndEvent("SubtitleID")>>
    \o SubSeq(Header, 5, Len(Header))

HeaderWithBlankId ==
    <<Header[1], StartEvent("SubtitleID", <<>>), CharEvent(<<" ">>), EndEvent("SubtitleID")>>
    \o SubSeq(Header, 5, Len(Header))

\* (width, height) the converter may be constructed with.
FrameSizes == {<<1920, 1080>>, <<2048, 858>>}

\* What uuid4() may give when the document has no SubtitleID.
Uuids == {<<"u", "u", "i", "d">>, <<"v", "v", "i", "d">>}

InitConvert ==
    /\ xml_content \in Documents
    /\ state = _ParserState
    /\ parse_pos = 0
    /\ converter = None
    /\ raised = None
    /\ parsed = <<>>
    /\ output_file = None
    /\ IdleTiming
    /\ IdleColor
    /\ IdleFont
    /\ IdleGeometry
    /\ IdleFontFile
    /\ IdlePayload

\* parser.Parse delivers the next event of the document to its handler; an
\* exception of the handler ends the parse and the constructor.
Pending(type) ==
    /\ converter = None
    /\ raised = None
    /\ parse_pos < Len(xml_content)
    /\ xml_content[parse_pos + 1].type = type

\* r is what the handler gave.
Handled(r) ==
    /\ IF r.ok
       THEN /\ state' = r.val
            /\ parse_pos' = parse_pos + 1
            /\ raised' = None
       ELSE /\ raised' = Some(r.err)
            /\ UNCHANGED <<state, parse_pos>>
    /\ UNCHANGED <<xml_content, converter, parsed, output_file,
                   timingVars, colorVars, fontVars, geometryVars, fontFileVars, payloadVars>>

HandleStart ==
    /\ Pending("start")
    /\ Handled(handle_start(state, xml_content[parse_pos + 1].name,
                            xml_content[parse_pos + 1].attrs))

HandleEnd ==
    /\ Pending("end")
    /\ Handled(handle_end(state, xml_content[parse_pos + 1].name))

HandleChar ==
    /\ Pending("char")
    /\ Handled(handle_char(state, xml_content[parse_pos + 1].data))

\* The rest of ASSConverter(path, width=..., height=...) once expat has
\* delivered the whole document: parse_cinecanvas_xml builds the DCSubtitle
\* or raises, and the converter starts with no events.
Constructed(doc, size) ==
    IF doc.ok
    THEN /\ converter' = Some(ASSConverter(doc.val, size[1], size[2]))
         /\ raised' = None
    ELSE /\ converter' = None
         /\ raised' = Some(doc.err)

Construct ==
    /\ converter = None
    /\ raised = None
    /\ parse_pos = Len(xml_content)
    /\ \E size \in FrameSizes, uuid \in Uuids : Constructed(finalize(state, uuid), size)
    /\ UNCHANGED <<xml_content, state, parse_pos, parsed, output_file,
                   timingVars, colorVars, fontVars, geometryVars, fontFileVars, payloadVars>>

\* r is what convert() gave: the converter after the call and the exception.
Returned(r) == converter' = Some(r.self) /\ raised' = r.err

\* One call of convert() on the converter.
Convert ==
    /\ converter # None
    /\ Returned(convert(Get(converter)))
    /\ UNCHANGED <<xml_content, state, parse_pos, parsed, output_file,
                   timingVars, colorVars, fontVars, geometryVars, fontFileVars, payloadVars>>

\* The values a caller may assign to process_ruby.
ProcessRubyValues ==
    {<<"bool", "True">>, <<"bool", "False">>, <<"int", "1">>, <<"str", "'yes'">>,
     <<"NoneType", "None">>}

\* converter.process_ruby = data
SetProcessRuby ==
    /\ converter # None
    /\ \E data \in ProcessRubyValues :
          converter' = Some(process_ruby_setter(Get(converter), data))
    /\ raised' = None
    /\ UNCHANGED <<xml_content, state, parse_pos, parsed, output_file,
                   timingVars, colorVars, fontVars, geometryVars, fontFileVars, payloadVars>>

\* The frame size of the converter is assigned anew.
SetFrameSize ==
    /\ converter # None
    /\ \E size \in FrameSizes :
          converter' = Some([Get(converter) EXCEPT !._w = size[1], !._h = size[2]])
    /\ raised' = None
    /\ UNCHANGED <<xml_content, state, parse_pos, parsed, output_file,
                   timingVars, colorVars, fontVars, geometryVars, fontFileVars, payloadVars>>

\* r is what save() gave.
Saved(r) == converter' = Some(r.self) /\ raised' = r.err /\ output_file' = r.file

\* One call of save() on the converter.
Save ==
    /\ converter # None
    /\ Saved(save(convert(Get(converter)), output_file))
    /\ UNCHANGED <<xml_content, state, parse_pos, parsed,
                   timingVars, colorVars, fontVars, geometryVars, fontFileVars, payloadVars>>

NextConvert ==
    \/ HandleStart \/ HandleEnd \/ HandleChar \/ Construct
    \/ Convert \/ SetProcessRuby \/ SetFrameSize \/ Save

SpecConvert == InitConvert /\ [][NextConvert]_vars

----------------------------------------------------------------------------
(* Claims about CineTiming.from_xml.                                       *)

\* The whole of v is one of the three timing shapes: digits; d:d:d:d; d:d:d.d
TimecodeShape(v, sep) ==
    LET g == MatchTimecode(v, sep)
    IN  /\ ~IsNone(g)
        /\ Len(Get(g)[1]) + Len(Get(g)[2]) + Len(Get(g)[3]) + Len(Get(g)[4]) + 3 = Len(v)

IsTimingShape(v) == IsDigit(v) \/ TimecodeShape(v, ":") \/ TimecodeShape(v, ".")

\* C1: a tick count t in 0..249 gives a sub-second part of exactly 4*t
\* milliseconds, as a bare integer and as the tick field of HH:MM:SS:TTT
\* (to_miliseconds = (HH*3600 + MM*60 + SS)*1000 + 4*TTT); a tick count above
\* 249 is rejected in both forms.
C1_TicksAreFourMilliseconds ==
    HasRun(timing_result) =>
        /\ \A t \in TickRange :
            timing_value \in {BareForm(t), ZFill(BareForm(t), 3)} =>
                IF t <= 249
                THEN timing_result.ok /\ to_miliseconds(timing_result.val) = 4 * t
                ELSE ~timing_result.ok
        /\ \A h \in FieldRange, m \in FieldRange, s \in FieldRange, t \in TickRange :
            timing_value = ColonForm(h, m, s, t) =>
                IF t <= 249
                THEN /\ timing_result.ok
                     /\ to_miliseconds(timing_result.val)
                            = (h * 3600 + m * 60 + s) * 1000 + 4 * t
                ELSE ~timing_result.ok

\* C2: from_xml fails for every input that, once trimmed, is not in its
\* entirety one of the three shapes; a valid shape followed by more
\* characters is rejected, not accepted on its prefix.
C2_OnlyWholeShapesAccepted ==
    (HasRun(timing_result) /\ ~IsTimingShape(Strip(timing_value))) => ~timing_result.ok

----------------------------------------------------------------------------
(* Claims about Color.from_hex.                                            *)

HexText(n) == <<HexChars[(n \div 16) + 1], HexChars[(n % 16) + 1]>>

\* A colour written back as AARRGGBB, in lower case.
EncodeColor(c) == HexText(c.a) \o HexText(c.r) \o HexText(c.g) \o HexText(c.b)

IsHexString(s) == \A i \in 1..Len(s) : IsHexChar(s[i])

\* C3: for a string of exactly 8 hexadecimal digits AARRGGBB, from_hex gives
\* a = digits 1-2, r = digits 3-4, g = digits 5-6, b = digits 7-8, each in
\* 0..255, so that writing the components back as AARRGGBB gives the input up
\* to letter case; a string whose length is not 8 is rejected.
C3_ColorRoundTrip ==
    HasRun(color_result) =>
        /\ (Len(hex_data) = 8 /\ IsHexString(hex_data)) =>
              /\ color_result.ok
              /\ \A k \in {color_result.val.a, color_result.val.r,
                           color_result.val.g, color_result.val.b} : k \in 0..255
              /\ color_result.val.a = 16 * HexValue(hex_data[1]) + HexValue(hex_data[2])
              /\ color_result.val.r = 16 * HexValue(hex_data[3]) + HexValue(hex_data[4])
              /\ color_result.val.g = 16 * HexValue(hex_data[5]) + HexValue(hex_data[6])
              /\ color_result.val.b = 16 * HexValue(hex_data[7]) + HexValue(hex_data[8])
              /\ EncodeColor(color_result.val) = Lower(hex_data)
        /\ Len(hex_data) # 8 => ~color_result.ok

\* C3 witness: an 8-digit string with four different components was parsed.
C3_Witness ==
    /\ color_result.ok
    /\ IsHexString(hex_data)
    /\ Cardinality({color_result.val.a, color_result.val.r,
                    color_result.val.g, color_result.val.b}) = 4

----------------------------------------------------------------------------
(* Claims about FontOverride.with_parent and maybe_merge_font.             *)

\* The field-by-field merge of override o onto p: o's value when it is not
\* None, whatever its truth value, else p's.
MergedField(o, p, n) == IF o[n] # None THEN o[n] ELSE p[n]

\* C4: o.with_parent(p), o an override and p a resolved Font, returns a new
\* Font whose eleven fields each equal o's value when o's value is non-null
\* (False and 0 included) and p's value otherwise; p and o are unchanged.
C4_WithParentFieldwise ==
    [][(~HasRun(parent_result) /\ HasRun(parent_result')) =>
          /\ parent_result'.ok
          /\ parent_result'.val.cls = "Font"
          /\ \A n \in FieldNames :
                parent_result'.val[n] = MergedField(Get(base_font), Get(root_font), n)
          /\ base_font' = base_font
          /\ root_font' = root_font]_vars

\* C4 witness: an override with falsy non-null fields and null fields was
\* merged onto a resolved Font whose values differ.
C4_Witness ==
    /\ parent_result.ok
    /\ Get(base_font).italic = Some(FALSE)
    /\ Get(base_font).size = Some(0)
    /\ Get(base_font).color = None
    /\ Get(root_font).italic = Some(TRUE)
    /\ Get(root_font).size = Some(30)

\* C5: a missing local context with a resolved inherited Font gives the
\* inherited Font unchanged; a resolved local Font is the result itself
\* whatever the inherited context is, with no field taken from it.
C5_ResolvedFontWins ==
    HasRun(merge_result) =>
        /\ (base_font = None /\ IsFont(root_font)) =>
              (merge_result.ok /\ merge_result.val = Get(root_font))
        /\ IsFont(base_font) =>
              (merge_result.ok /\ merge_result.val = Get(base_font))

\* C5 witness: a resolved local Font met a different resolved inherited Font.
C5_Witness ==
    /\ merge_result.ok
    /\ IsFont(base_font)
    /\ IsFont(root_font)
    /\ Get(base_font).font # Get(root_font).font

\* C6: a partial override merged with an inherited partial override succeeds
\* and gives the field-by-field merge, for every combination of null and
\* non-null fields, spacing and aspect_adjust null in both included.
C6_OverrideOnOverrideMerges ==
    (HasRun(merge_result) /\ IsFontOverride(base_font) /\ IsFontOverride(root_font)) =>
        /\ merge_result.ok
        /\ \A n \in FieldNames :
              merge_result.val[n] = MergedField(Get(base_font), Get(root_font), n)

\* C7: a partial override with no inherited context resolves, when it has a
\* face, to itself merged onto the default Font of that face (white, shadow,
\* black effect colour, size 42, aspect 1.0, spacing 0.0, normal weight and
\* script, not italic, not underlined); without a face, and when both
\* contexts are absent, resolution fails.
ClaimedDefaults(face) ==
    [font |-> face, color |-> Some([r |-> 255, g |-> 255, b |-> 255, a |-> 255]),
     effect |-> Some("shadow"), effect_color |-> Some([r |-> 0, g |-> 0, b |-> 0, a |-> 255]),
     italic |-> Some(FALSE), weight |-> Some("normal"), script |-> Some("normal"),
     size |-> Some(42), aspect_adjust |-> Some(100), underlined |-> Some(FALSE),
     spacing |-> Some(0)]

C7_OverrideAloneNeedsFace ==
    HasRun(merge_result) =>
        /\ (IsFontOverride(base_font) /\ root_font = None /\ Get(base_font).font # None) =>
              /\ merge_result.ok
              /\ merge_result.val.cls = "Font"
              /\ \A n \in FieldNames :
                    merge_result.val[n]
                        = MergedField(Get(base_font), ClaimedDefaults(Get(base_font).font), n)
        /\ (IsFontOverride(base_font) /\ root_font = None /\ Get(base_font).font = None) =>
              ~merge_result.ok
        /\ (base_font = None /\ root_font = None) => ~merge_result.ok

\* C7 witness: an override holding a face and little else was resolved alone.
C7_Witness ==
    /\ merge_result.ok
    /\ IsFontOverride(base_font)
    /\ root_font = None
    /\ Get(base_font).size = None
    /\ Get(base_font).italic = Some(TRUE)
    /\ merge_result.val.size = Some(42)

----------------------------------------------------------------------------
(* Claims about the Text element and about converted documents.            *)

\* The attributes of the Text elements of a document, in document order.
RECURSIVE TextStarts(_)
TextStarts(events) ==
    IF events = <<>> THEN <<>>
    ELSE (IF Head(events).type = "start" /\ Head(events).name = "Text"
          THEN <<Head(events).attrs>> ELSE <<>>)
         \o TextStarts(Tail(events))

\* The runs of the given subtitles, in order.
RECURSIVE RunsOf(_)
RunsOf(subtitles) ==
    IF subtitles = <<>> THEN <<>>
    ELSE Head(subtitles).contents \o RunsOf(Tail(subtitles))

\* The runs the parser has stored so far, in document order.
StoredRuns ==
    RunsOf(state.contents)
    \o (IF IsNone(state.current_subtitle) THEN <<>> ELSE Get(state.current_subtitle).contents)

\* The value of the attribute spelled as one of names, if the element has it.
AttrOf(attrs, names) ==
    IF \E n \in names : n \in DOMAIN attrs
    THEN Some(attrs[CHOOSE n \in names : n \in DOMAIN attrs])
    ELSE None

\* The attribute is absent, or its value is none of the words.
Unrecognised(value, words) == IsNone(value) \/ Lower(Strip(Get(value))) \notin words

\* C10: a Text run opened without HAlign / VAlign, or with an unrecognised
\* value for it, is stored with align_h = center / align_v = center, and no
\* stored run has a null alignment; its position_h / position_v is 0.0 when
\* HPosition / VPosition is absent; its direction is horizontal when Direction
\* is absent or unrecognised.
C10_TextDefaultsStored ==
    \A i \in 1..Len(StoredRuns) :
        LET attrs == TextStarts(xml_content)[i]
            run == StoredRuns[i]
        IN  /\ run.align_h # None
            /\ run.align_v # None
            /\ Unrecognised(AttrOf(attrs, {"HAlign", "halign"}),
                            {Text_left, Text_right, Text_center})
                  => run.align_h = Some("center")
            /\ Unrecognised(AttrOf(attrs, {"VAlign", "valign"}),
                            {Text_top, Text_bottom, Text_center})
                  => run.align_v = Some("center")
            /\ IsNone(AttrOf(attrs, {"HPosition", "hposition"})) => run.position_h = 0
            /\ IsNone(AttrOf(attrs, {"VPosition", "vposition"})) => run.position_v = 0
            /\ Unrecognised(AttrOf(attrs, {"Direction", "direction"}),
                            {Text_horizontal, Text_vertical})
                  => run.direction = "horizontal"

\* The position in items of the k-th opening of a tag list, from position i on.
RECURSIVE NthOpening(_, _, _)
NthOpening(items, k, i) ==
    IF items[i][1] = AssTagListOpening[1]
    THEN (IF k = 1 THEN i ELSE NthOpening(items, k - 1, i + 1))
    ELSE NthOpening(items, k, i + 1)

RECURSIVE EndingFrom(_, _)
EndingFrom(items, i) ==
    IF items[i][1] = AssTagListEnding[1] THEN i ELSE EndingFrom(items, i + 1)

\* The tags of the k-th tag list of a line: the first is the head of the
\* line, the (k + 1)-th precedes the text of the k-th content item.
TagList(items, k) ==
    SubSeq(items, NthOpening(items, k, 1) + 1, EndingFrom(items, NthOpening(items, k, 1)) - 1)

HasTag(tags, tag) == \E i \in 1..Len(tags) : tags[i][1] = tag[1] /\ tags[i] = tag

HasTagNamed(tags, name) == \E i \in 1..Len(tags) : tags[i][1] = name

\* The pairs (subtitle, run) of a document, in order.
RECURSIVE SubtitleRuns(_)
SubtitleRuns(subtitles) ==
    IF subtitles = <<>> THEN <<>>
    ELSE [j \in 1..Len(Head(subtitles).contents) |->
            [subtitle |-> Head(subtitles), run |-> Head(subtitles).contents[j]]]
         \o SubtitleRuns(Tail(subtitles))

\* The Font with the override's value for every field the override sets and
\* the context's value for the others.
MergedOnto(override, context) ==
    [n \in FieldNames \cup {"cls"} |->
        IF n = "cls" THEN "Font" ELSE MergedField(override, context, n)]

\* Whether an event is a ruby overlay, and the primary events of a list.
IsOverlay(event) == event.effect = "Ruby"

IsPrimary(event) == ~IsOverlay(event)

PrimaryEvents(events) == SelectSeq(events, IsPrimary)

\* C8: when the subtitle has a resolved wrapping Font, the tags emitted for
\* the inner text of a font-override item are those generated from the
\* override merged onto that Font (the override's value for every field it
\* sets, the context's for the others), and the item is emitted inside the
\* single primary event of its run: the document has one primary event per
\* run.
C8_InlineOverrideApplied ==
    (converter # None /\ Get(converter)._is_done) =>
        LET self == Get(converter)
            runs == SubtitleRuns(self._subtitle.contents)
        IN  /\ Len(PrimaryEvents(self.events)) = Len(runs)
            /\ \A e \in 1..Len(runs) : \A k \in 1..Len(runs[e].run.contents) :
                  LET item == runs[e].run.contents[k]
                      context == runs[e].subtitle.font
                  IN  (item.kind = "ContentWithFont" /\ IsFont(context)) =>
                         TagList(PrimaryEvents(self.events)[e].text, k + 1)
                            = format_content(self, item.content, runs[e].run,
                                             Some(MergedOnto(item.font, Get(context))),
                                             context, None, None).val.tags

\* The document of the scenario; its root Font sets nothing but its Id.
HelloDocument ==
    MakeDocument(Some([Id |-> <<"F">>]), [TimeIn |-> Time_0s, TimeOut |-> Time_5s], <<>>,
                 <<[font |-> None, text |-> Text_HELLO]>>)

\* C9: one Subtitle from 0:00:00:000 to 0:00:05:000 under a root Font, with
\* one Text run without alignment or position attributes and the text HELLO,
\* converted at 1920x1080, gives exactly one event, from 0 ms to 5000 ms,
\* with alignment numpad 2, position (960, 1080), and tags that include the
\* primary colour, the font size, bold 0, italic off and underline off.
C9_HelloScenario ==
    (/\ xml_content = HelloDocument
     /\ converter # None
     /\ Get(converter)._w = 1920
     /\ Get(converter)._h = 1080
     /\ Get(converter)._is_done) =>
        LET events == Get(converter).events
        IN  /\ Len(events) = 1
            /\ events[1].start = 0
            /\ events[1].end = 5000
            /\ HasTag(TagList(events[1].text, 1), AssValidTagAlignment(2))
            /\ HasTag(TagList(events[1].text, 1), AssValidTagPosition(96000, 108000))
            /\ HasTagNamed(TagList(events[1].text, 2), "1c")
            /\ HasTagNamed(TagList(events[1].text, 2), "fs")
            /\ HasTag(TagList(events[1].text, 2), AssValidTagBold(0))
            /\ HasTag(TagList(events[1].text, 2), AssValidTagItalic(FALSE))
            /\ HasTag(TagList(events[1].text, 2), AssValidTagUnderline(FALSE))

----------------------------------------------------------------------------
(* Claims about the geometry of a run: alignment, position, effect size.   *)

\* The row base of a recognised vertical alignment.
RowBase(align_v) ==
    IF align_v = Some("top") THEN 8 ELSE IF align_v = Some("center") THEN 5 ELSE 2

\* The column shift of a horizontal alignment.
ColumnShift(align_h) ==
    IF align_h = Some("left") THEN -1 ELSE IF align_h = Some("right") THEN 1 ELSE 0

\* C11: for every run of the document the converter holds, get_alignment
\* returns (it does not raise) a numpad value in 1..9; when the run's
\* vertical alignment is top, center or bottom the value is the row base
\* (8, 5, 2) plus the column shift (-1 left, 0 center, +1 right), and for any
\* other vertical alignment it is 2.
C11_AlignmentNumpad ==
    converter # None =>
        \A s \in 1..Len(Get(converter)._subtitle.contents) :
            \A i \in 1..Len(Get(converter)._subtitle.contents[s].contents) :
                LET run == Get(converter)._subtitle.contents[s].contents[i]
                    alignment == get_alignment(run)
                IN  /\ alignment.ok
                    /\ alignment.val \in 1..9
                    /\ alignment.val =
                          IF run.align_v \in {Some("top"), Some("center"), Some("bottom")}
                          THEN RowBase(run.align_v) + ColumnShift(run.align_h)
                          ELSE 2

\* The percentage after the clamp the anchor calls for.
ClampedPercent(p, anchor) ==
    IF anchor = Some("center")
    THEN (IF p < -10000 THEN -10000 ELSE IF p > 10000 THEN 10000 ELSE p)
    ELSE (IF p < 0 THEN 0 ELSE IF p > 10000 THEN 10000 ELSE p)

\* The coordinate of percentage q on an axis of extent E, times 10000.
ExactAxis(q, E, anchor) ==
    IF anchor \in {Some("left"), Some("top")} THEN E * q
    ELSE IF anchor \in {Some("right"), Some("bottom")} THEN E * 10000 - E * q
    ELSE E * 5000 + E * q

\* r, in hundredths, is the exact value (times 10000) rounded to two decimals.
RoundsTo(r, exact) == 100 * r - exact \in -50..50

AxisAsClaimed(r, p, E, anchor) ==
    anchor # None =>
        /\ RoundsTo(r, ExactAxis(ClampedPercent(p, anchor), E, anchor))
        /\ (anchor = Some("center") /\ p \in -10000..10000) => RoundsTo(r, ExactAxis(p, E, anchor))
        /\ (anchor # Some("center") /\ p \in 0..10000) => RoundsTo(r, ExactAxis(p, E, anchor))

\* C12: calculate_positioning maps the percentage of each axis on its own,
\* with the extent E of that axis: it clamps p to [0, 100] for a left, top,
\* right or bottom anchor and to [-100, 100] for a center anchor, and gives
\* E*p/100 for left/top, E - E*p/100 for right/bottom and E/2 + E*p/100 for
\* center, rounded to two decimals. A percentage inside the legal range is
\* used as it is, and the result for p is the result for clamp(p).
C12_PositioningClampsPerAxis ==
    HasRun(position_result) =>
        /\ AxisAsClaimed(position_result.val[1], position_args.position_x,
                         position_args.width, position_args.align_h)
        /\ AxisAsClaimed(position_result.val[2], position_args.position_y,
                         position_args.height, position_args.align_v)
        /\ position_result.val =
              calculate_positioning(
                  ClampedPercent(position_args.position_x, position_args.align_h),
                  ClampedPercent(position_args.position_y, position_args.align_v),
                  position_args.width, position_args.height,
                  position_args.align_h, position_args.align_v)

\* A call with a center anchor below -100 on one axis and a bottom anchor
\* with a percentage inside the range on the other.
C12_Witness ==
    /\ HasRun(position_result)
    /\ position_args.align_h = Some("center")
    /\ position_args.position_x < -10000
    /\ position_args.align_v = Some("bottom")
    /\ position_args.position_y = 3333
    /\ position_result.val[1] = -50 * position_args.width

\* The claim of C13 as stated: for every font size > 0 and every positive
\* frame width and height, the value v that calculate_effect_size returns
\* satisfies 1.0 <= v <= fontSize * 0.2.
C13_EffectSizeInClaimedRange ==
    \A i \in 1..Len(effect_calls) :
        /\ 100 <= effect_calls[i].result
        /\ 100 * effect_calls[i].result <= 20 * effect_calls[i].font_size

\* C13, amended: for every font size >= 5 and every positive frame width and
\* height, calculate_effect_size returns a value v with 1.0 <= v and v at
\* most fontSize * 0.2 rounded to two decimals; for a font size below 5 it
\* returns fontSize * 0.2 rounded to two decimals, which is at most 1.0.
C13_EffectSizeRange ==
    \A i \in 1..Len(effect_calls) :
        LET font_size == effect_calls[i].font_size
            v == effect_calls[i].result
        IN  IF font_size >= 500
            THEN 100 <= v /\ 100 * v <= 20 * font_size + 50
            ELSE RoundsTo(v, 20 * font_size) /\ v <= 100

\* Calls on both sides of font size 5: one whose value is the floor 1.0, one
\* whose value is the cap of a size above 5, one whose value is the cap of a
\* size below 5.
C13_Witness ==
    /\ Len(effect_calls) = 2
    /\ effect_calls[1].font_size = 400
    /\ effect_calls[1].result = 80
    /\ effect_calls[2].font_size >= 500
    /\ effect_calls[2].result \in {100, 2 * (effect_calls[2].font_size \div 10)}

\* C14: for fixed positive frame width and height, calculate_effect_size is
\* monotonically non-decreasing in the font size: of two calls for the same
\* frame, the one with the smaller font size gives no larger a value.
C14_EffectSizeMonotone ==
    \A i, j \in 1..Len(effect_calls) :
        effect_calls[i].font_size <= effect_calls[j].font_size
            => effect_calls[i].result <= effect_calls[j].result

\* Two calls for one frame with a smaller and a larger font size whose
\* values differ, the first at the floor.
C14_Witness ==
    /\ Len(effect_calls) = 2
    /\ effect_calls[1].font_size < effect_calls[2].font_size
    /\ effect_calls[1].result = 100
    /\ effect_calls[2].result > 100
    /\ effect_calls[2].result < 2 * (effect_calls[2].font_size \div 10)

----------------------------------------------------------------------------
(* Claims about the events of a conversion.                                *)

IsRuby(item) == item.kind = "ContentWithRuby"

\* How many ContentWithRuby items a run holds.
RubyCount(run) == Len(SelectSeq(run.contents, IsRuby))

\* A step in which convert() (called directly or by save()) has processed
\* the document and succeeded.
Converts ==
    /\ converter # None
    /\ converter' # None
    /\ ~Get(converter)._is_done
    /\ Get(converter')._is_done

\* What C15 says of the events of a document with the given runs (pairs of
\* subtitle and run): for each run in order one primary event with the times
\* of its subtitle, followed by overlays events, as many as the run has
\* ContentWithRuby items when ruby is on, none when it is off.
RECURSIVE ClaimedEvents(_, _)
ClaimedEvents(runs, ruby) ==
    IF runs = <<>> THEN <<>>
    ELSE <<[overlay |-> FALSE,
            start |-> to_timedelta(Head(runs).subtitle.start),
            end |-> to_timedelta(Head(runs).subtitle.end)]>>
         \o [k \in 1..(IF ruby THEN RubyCount(Head(runs).run) ELSE 0) |->
                [overlay |-> TRUE,
                 start |-> to_timedelta(Head(runs).subtitle.start),
                 end |-> to_timedelta(Head(runs).subtitle.end)]]
         \o ClaimedEvents(Tail(runs), ruby)

EventsAsClaimed(events, claimed) ==
    /\ Len(events) = Len(claimed)
    /\ \A i \in 1..Len(claimed) :
          /\ IsOverlay(events[i]) = claimed[i].overlay
          /\ IsPrimary(events[i]) =>
                events[i].start = claimed[i].start /\ events[i].end = claimed[i].end

\* C15: a successful convert() emits exactly one primary event per run of the
\* document, in document order (subtitles in order, runs in order within
\* each), each with the start and end time of its subtitle; with ruby
\* processing enabled it emits exactly one overlay event per ContentWithRuby
\* item of a run, right after that run's primary event and before the next
\* run's primary event (and no overlay with ruby processing disabled).
C15_OnePrimaryPerRun ==
    [][Converts =>
          EventsAsClaimed(Get(converter').events,
                          ClaimedEvents(SubtitleRuns(Get(converter')._subtitle.contents),
                                        Get(converter')._process_ruby))]_vars

\* A converted document of two subtitles with different times, converted
\* with ruby enabled, whose first subtitle has two runs, the first of them
\* with two Ruby elements: four events for the first subtitle, the overlays
\* second and third.
C15_Witness ==
    /\ converter # None
    /\ Get(converter)._is_done
    /\ Len(Get(converter)._subtitle.contents) = 2
    /\ Len(Get(converter)._subtitle.contents[1].contents) = 2
    /\ RubyCount(Get(converter)._subtitle.contents[1].contents[1]) = 2
    /\ Len(Get(converter).events) >= 6
    /\ IsOverlay(Get(converter).events[2])
    /\ IsOverlay(Get(converter).events[3])
    /\ IsPrimary(Get(converter).events[4])
    /\ Get(converter).events[1].start # Get(converter).events[Len(Get(converter).events)].start

\* The place (subtitle number s, 1-based run index idx) of every run of a
\* document, in document order.
RunPlaces(subtitles) ==
    Flatten([s \in 1..Len(subtitles) |->
                [idx \in 1..Len(subtitles[s].contents) |-> [s |-> s, idx |-> idx]]])

\* How many of the first i events are primary events: the number, in
\* document order, of the run that event i belongs to.
RunNumber(events, i) == Len(PrimaryEvents(SubSeq(events, 1, i)))

\* C16: within every subtitle, for any number of runs, a primary event's
\* layer is the 1-based index of its run, a ruby overlay's layer is that
\* index + 100, and no ruby overlay of the subtitle has the layer of a
\* primary event of the same subtitle.
C16_LayersNeverCollide ==
    (converter # None /\ Get(converter)._is_done) =>
        LET events == Get(converter).events
            places == RunPlaces(Get(converter)._subtitle.contents)
            place == [i \in 1..Len(events) |-> places[RunNumber(events, i)]]
        IN  /\ \A i \in 1..Len(events) :
                  events[i].layer = IF IsOverlay(events[i]) THEN place[i].idx + 100
                                    ELSE place[i].idx
            /\ \A i, j \in 1..Len(events) :
                  (/\ place[i].s = place[j].s
                   /\ IsOverlay(events[i])
                   /\ IsPrimary(events[j])) => events[i].layer # events[j].layer

\* The text a content item shows on the primary line according to C17: its
\* own text, and for a ContentWithRuby its base text.
BaseText(item) ==
    IF item.kind = "Content" THEN item.text
    ELSE IF item.kind = "ContentWithFont" THEN item.content
    ELSE item.base

IsTextItem(ass_item) == ass_item[1] = "text"

\* The text items of the primary line of a run are those of the base texts
\* of its content items, in order.
OnlyBaseTexts(event, run) ==
    SelectSeq(event.text, IsTextItem)
        = [k \in 1..Len(run.contents) |->
              make_directional_text(BaseText(run.contents[k]), run.direction)]

\* A convert() that succeeded with ruby processing disabled gave no overlay
\* and primary lines holding only base texts.
RubyLeftOut(self) ==
    /\ \A i \in 1..Len(self.events) : IsPrimary(self.events[i])
    /\ Len(self.events) = Len(SubtitleRuns(self._subtitle.contents))
    /\ \A i \in 1..Len(self.events) :
          OnlyBaseTexts(self.events[i], SubtitleRuns(self._subtitle.contents)[i].run)

\* C17: ruby processing is disabled on a new converter and stays disabled
\* when a value that is not a bool is assigned to process_ruby; a convert()
\* with ruby processing disabled produces no ruby overlay event, and the
\* primary line of a run with RubyAnnotation items holds the base text of
\* each annotation and never its ruby text.
C17_RubyDisabledLeavesBaseText ==
    /\ [][(converter = None /\ converter' # None) => ~Get(converter')._process_ruby]_vars
    /\ []((converter # None /\ ~Get(converter)._process_ruby) =>
             \A data \in ProcessRubyValues :
                data[1] # "bool" => ~process_ruby_setter(Get(converter), data)._process_ruby)
    /\ [][(Converts /\ ~Get(converter')._process_ruby) => RubyLeftOut(Get(converter'))]_vars

\* A document with a run of two Ruby elements converted with ruby processing
\* disabled: as many events as runs, none of them an overlay.
C17_Witness ==
    /\ converter # None
    /\ Get(converter)._is_done
    /\ ~Get(converter)._process_ruby
    /\ RubyCount(Get(converter)._subtitle.contents[1].contents[1]) = 2
    /\ Get(converter).events # <<>>
    /\ \A i \in 1..Len(Get(converter).events) : IsPrimary(Get(converter).events[i])

\* C18: once convert() has succeeded, every later step on the converter
\* (convert() itself, save(), an assignment to process_ruby or to the frame
\* size followed by convert()) leaves the converter done and its event list
\* as it was: events are neither appended again nor computed anew.
C18_SecondConvertReturnsCached ==
    [][(converter # None /\ Get(converter)._is_done) =>
          /\ converter' # None
          /\ Get(converter')._is_done
          /\ Get(converter').events = Get(converter).events
          /\ raised' = None]_vars

\* A document with Ruby elements that was converted with ruby processing
\* disabled and the first frame size, then had ruby processing enabled and
\* the frame size changed, and was then saved: the file holds the events of
\* the first conversion, without overlays and placed in the first frame.
C18_Witness ==
    /\ converter # None
    /\ Get(converter)._is_done
    /\ Get(converter)._process_ruby
    /\ RubyCount(Get(converter)._subtitle.contents[1].contents[1]) > 0
    /\ Get(converter).events # <<>>
    /\ \A i \in 1..Len(Get(converter).events) : IsPrimary(Get(converter).events[i])
    /\ output_file = Some(Get(converter).events)

----------------------------------------------------------------------------
(* parse_cinecanvas_xml called again and again on the same text.           *)

\* How many times the text is parsed.
MaxParses == 2

HeaderWithoutTitle == SubSeq(Header, 1, 4) \o SubSeq(Header, 8, Len(Header))

ParseHeaders ==
    {Header, HeaderWithoutId, HeaderWithEmptyId, HeaderWithBlankId, HeaderWithoutTitle}

\* The documents of the claim about the id: each header with each run.
IdDocuments ==
    {MakeRunsDocument(header, SubtitleEvents(SubtitleAttrs_first, <<run>>)) :
        header \in ParseHeaders, run \in RunShapes}

\* A simple element with its text, which is left out when empty.
SimpleEvents(name, text) ==
    <<StartEvent(name, <<>>)>>
    \o (IF text = <<>> THEN <<>> ELSE <<CharEvent(text)>>)
    \o <<EndEvent(name)>>

\* The metadata elements a header may be made of: none, or one spelling.
TitleEvents == {<<>>, SimpleEvents("MovieTitle", <<"T">>), SimpleEvents("MovieTitle", <<>>)}

ReelEvents ==
    {<<>>} \cup {SimpleEvents("ReelNumber", text) :
                    text \in {<<"1">>, <<" ", "2", " ">>, <<"-", "3">>, <<"x">>, <<"1", ".", "5">>,
                              <<>>}}

LanguageEvents == {<<>>, SimpleEvents("Language", <<"e", "n">>)}

\* The attributes of the DCSubtitle element.
VersionAttrs ==
    {<<>>, [Version |-> <<"1", ".", "0">>], [Version |-> <<"1", ".", "1">>],
     [Version |-> <<"2", ".", "0">>], [Version |-> <<"1", ".", "0", " ">>],
     [version |-> <<"1", ".", "0">>]}

\* A MovieTitle whose text is interrupted by a Language element: the title
\* is opened and closed and never stored.
TitleAroundLanguage ==
    <<StartEvent("MovieTitle", <<>>), CharEvent(<<"T">>)>>
    \o SimpleEvents("Language", <<"e", "n">>)
    \o <<EndEvent("MovieTitle")>>

PlainRun == <<StartEvent("Text", Text_top_center), CharEvent(<<"A">>), EndEvent("Text")>>

\* Documents of one plain run under each header: every choice of metadata
\* with version 1.0, every version with full metadata, and the interrupted
\* title.
MetadataDocuments ==
    {<<StartEvent("DCSubtitle", version)>> \o title \o reel \o language
        \o Tail(MakeRunsDocument(<<Header[1]>>, SubtitleEvents(SubtitleAttrs_first, <<PlainRun>>))) :
        version \in {[Version |-> <<"1", ".", "0">>]},
        title \in TitleEvents, reel \in ReelEvents, language \in LanguageEvents}
    \cup
    {<<StartEvent("DCSubtitle", version)>> \o SubSeq(Header, 5, Len(Header))
        \o Tail(MakeRunsDocument(<<Header[1]>>, SubtitleEvents(SubtitleAttrs_first, <<PlainRun>>))) :
        version \in VersionAttrs}
    \cup
    {<<Header[1]>> \o TitleAroundLanguage \o SimpleEvents("ReelNumber", <<"1">>)
        \o Tail(MakeRunsDocument(<<Header[1]>>, SubtitleEvents(SubtitleAttrs_first, <<PlainRun>>)))}

\* The attributes of a Subtitle element: with and without each time, with
\* and without each fade, a fade counted in ticks and one as a timecode.
Ticks_20 == <<"2", "0">>

Time_quarter == <<"0", "0", ":", "0", "0", ":", "0", "0", ".", "2", "5">>

TimedSubtitleAttrs ==
    {<<>>,
     [TimeIn |-> Time_0s],
     [TimeOut |-> Time_5s],
     [TimeIn |-> Time_0s, TimeOut |-> Time_5s],
     [TimeIn |-> <<>>, TimeOut |-> Time_5s],
     [TimeIn |-> Time_0s, TimeOut |-> Time_5s, FadeUpTime |-> <<"0">>],
     [TimeIn |-> Time_0s, TimeOut |-> Time_5s, FadeDownTime |-> Ticks_20],
     [TimeIn |-> Time_0s, TimeOut |-> Time_5s, FadeUpTime |-> Time_quarter,
      FadeDownTime |-> <<"5">>],
     [TimeIn |-> Time_0s, TimeOut |-> Time_5s, FadeUpTime |-> <<>>],
     [TimeIn |-> Time_0s, TimeOut |-> Time_5s, FadeUpTime |-> <<"s", "o", "o", "n">>],
     [TimeIn |-> Time_0s, FadeUpTime |-> <<"0">>, FadeDownTime |-> <<"0">>]}

\* Documents of two subtitles: the first as usual, the second with each of
\* the attributes above.
TimedDocuments ==
    {MakeRunsDocument(Header, SubtitleEvents(SubtitleAttrs_first, <<PlainRun>>)
                              \o SubtitleEvents(attrs, <<PlainRun>>)) :
        attrs \in TimedSubtitleAttrs}

\* What a Text element may hold.
FontEvents(attrs, inner) == <<StartEvent("Font", attrs)>> \o inner \o <<EndEvent("Font")>>

TextBodies ==
    {<<CharEvent(<<"a">>)>>,
     <<CharEvent(<<"a">>)>> \o FontEvents([Color |-> Hex_red], <<CharEvent(<<"b">>)>>)
        \o <<CharEvent(<<"c">>)>>,
     FontEvents([Color |-> Hex_red],
                <<CharEvent(<<"x">>)>>
                \o FontEvents([Italic |-> Text_yes], <<CharEvent(<<"y">>)>>)
                \o <<CharEvent(<<"z">>)>>),
     <<CharEvent(<<"a">>)>> \o RubyEvents(<<"K">>, <<"r">>, <<>>) \o <<CharEvent(<<"b">>)>>,
     <<CharEvent(<<"a">>), StartEvent("Ruby", <<>>), StartEvent("Rb", <<>>),
       CharEvent(<<"K">>), EndEvent("Rb"), EndEvent("Ruby"), CharEvent(<<"b">>)>>,
     <<StartEvent("Ruby", <<>>), EndEvent("Ruby"), CharEvent(<<"c">>)>>,
     <<CharEvent(<<"a">>), StartEvent("Space", [Size |-> <<"1", "e", "m">>]),
       EndEvent("Space"),
       StartEvent("HGroup", <<>>), CharEvent(<<"1", "2">>), EndEvent("HGroup"),
       StartEvent("Rotate", [Direction |-> Text_left]), CharEvent(<<"R">>),
       EndEvent("Rotate"),
       StartEvent("Space", <<>>), EndEvent("Space"), CharEvent(<<"b">>)>>,
     FontEvents([Color |-> Hex_red],
                <<CharEvent(<<"a">>)>> \o RubyEvents(<<"K">>, <<"r">>, Rt_styled)
                \o <<CharEvent(<<"b">>)>>),
     <<CharEvent(<<"p">>), StartEvent("Font", [Italic |-> Text_yes]), CharEvent(<<"f">>),
       StartEvent("Rotate", <<>>), CharEvent(<<"r">>),
       StartEvent("HGroup", <<>>), CharEvent(<<"h">>),
       StartEvent("Ruby", <<>>), CharEvent(<<"q">>),
       StartEvent("Rb", <<>>), CharEvent(<<"b">>),
       StartEvent("MovieTitle", <<>>), CharEvent(<<"m">>), EndEvent("MovieTitle"),
       EndEvent("Rb"),
       StartEvent("Rt", <<>>), CharEvent(<<"t">>),
       StartEvent("Language", <<>>), CharEvent(<<"l">>), EndEvent("Language"),
       CharEvent(<<"u">>), EndEvent("Rt"), EndEvent("Ruby"),
       CharEvent(<<"i">>), EndEvent("HGroup"),
       CharEvent(<<"s">>), EndEvent("Rotate"),
       CharEvent(<<"g">>), EndEvent("Font"), CharEvent(<<"w">>)>>}

BodyRun(body) == <<StartEvent("Text", Text_top_center)>> \o body \o <<EndEvent("Text")>>

\* Documents of one subtitle of one or two runs, each run with one of the
\* bodies above.
MarkupDocuments ==
    {MakeRunsDocument(Header, SubtitleEvents(SubtitleAttrs_first,
                                             [k \in 1..Len(bodies) |-> BodyRun(bodies[k])])) :
        bodies \in SeqsUpTo(TextBodies, MaxRuns) \ {<<>>}}

\* Documents whose elements are out of place: character data and the inline
\* elements outside a Text, a Text outside a Subtitle, a Text in a Text, a
\* Subtitle in a Subtitle, a Font between Subtitle and Text.
MisplacedDocuments ==
    {MakeRunsDocument(Header,
        <<CharEvent(<<"o">>)>>
        \o SubtitleEvents(SubtitleAttrs_first,
              <<<<CharEvent(<<"n">>)>> \o RubyEvents(<<"K">>, <<"r">>, <<>>)
                \o <<StartEvent("Space", <<>>), EndEvent("Space"),
                     StartEvent("HGroup", <<>>), CharEvent(<<"1">>), EndEvent("HGroup"),
                     StartEvent("Rotate", <<>>), CharEvent(<<"R">>), EndEvent("Rotate")>>,
                PlainRun>>)),
     MakeRunsDocument(Header, SubtitleEvents(SubtitleAttrs_first, <<PlainRun>>) \o PlainRun),
     MakeRunsDocument(Header,
        SubtitleEvents(SubtitleAttrs_first,
            <<<<StartEvent("Text", Text_top_center), CharEvent(<<"a">>)>>
              \o PlainRun \o <<CharEvent(<<"b">>), EndEvent("Text")>>>>)),
     MakeRunsDocument(Header,
        SubtitleEvents(SubtitleAttrs_first,
            <<PlainRun, SubtitleEvents(SubtitleAttrs_second, <<PlainRun, PlainRun>>)>>)
        \o SubtitleEvents(SubtitleAttrs_second, <<PlainRun>>)),
     MakeRunsDocument(Header,
        SubtitleEvents(SubtitleAttrs_first,
            <<FontEvents([Id |-> <<"G">>], PlainRun), PlainRun>>))}

\* Documents about the scopes of Font: a Text inside an inline Font of a
\* Text, followed by a plain run; a subtitle under no Font at all; a root
\* Font nested in a root Font that sets every attribute, with one subtitle
\* under both and one under the outer Font alone; a Font opened and closed
\* between Subtitle and Text.
RootFont_rich ==
    [Id |-> <<"G">>, Color |-> Hex_green, Size |-> <<"3", "0">>, Italic |-> Text_yes,
     Weight |-> Text_bold, Effect |-> Text_shadow, EffectColor |-> Hex_blue,
     Spacing |-> <<"2">>, AspectAdjust |-> <<"1", ".", "5">>]

FontScopeDocuments ==
    {MakeRunsDocument(Header,
        SubtitleEvents(SubtitleAttrs_first,
            <<<<StartEvent("Text", Text_top_center), StartEvent("Font", [Color |-> Hex_red]),
                CharEvent(<<"x">>)>>
              \o PlainRun
              \o <<CharEvent(<<"z">>), EndEvent("Font"), EndEvent("Text")>>,
              PlainRun>>)),
     Header \o SubtitleEvents(SubtitleAttrs_first, <<PlainRun>>) \o <<EndEvent("DCSubtitle")>>,
     Header
        \o <<StartEvent("Font", RootFont_rich), StartEvent("Font", [Id |-> <<"H">>])>>
        \o SubtitleEvents(SubtitleAttrs_first, <<PlainRun>>)
        \o <<EndEvent("Font")>>
        \o SubtitleEvents(SubtitleAttrs_second, <<PlainRun>>)
        \o <<EndEvent("Font"), EndEvent("DCSubtitle")>>,
     MakeRunsDocument(Header,
        SubtitleEvents(SubtitleAttrs_first,
            <<FontEvents(RootFont_rich, <<>>), PlainRun>>))}

\* Documents with Rb and Rt elements between two runs, the first run holding
\* a Ruby without Rt: the Rt with no attribute, and with a size that is no
\* number.
RubyWithoutRtRun ==
    <<StartEvent("Text", Text_top_center), StartEvent("Ruby", <<>>), StartEvent("Rb", <<>>),
      CharEvent(<<"K">>), EndEvent("Rb"), EndEvent("Ruby"), EndEvent("Text")>>

RubyPartsEvents(rt) ==
    <<StartEvent("Rb", <<>>), EndEvent("Rb"), StartEvent("Rt", rt), EndEvent("Rt")>>

StrayRubyPartsDocuments ==
    {MakeRunsDocument(Header,
        SubtitleEvents(SubtitleAttrs_first, <<RubyWithoutRtRun, RubyPartsEvents(rt), PlainRun>>)) :
        rt \in {<<>>, [Size |-> <<"b", "i", "g">>]}}

ParseDocuments ==
    IdDocuments \cup MetadataDocuments \cup TimedDocuments \cup MarkupDocuments
    \cup MisplacedDocuments \cup FontScopeDocuments \cup StrayRubyPartsDocuments

InitParse ==
    /\ xml_content \in ParseDocuments
    /\ state = _ParserState
    /\ parse_pos = 0
    /\ converter = None
    /\ raised = None
    /\ parsed = <<>>
    /\ output_file = None
    /\ IdleTiming
    /\ IdleColor
    /\ IdleFont
    /\ IdleGeometry
    /\ IdleFontFile
    /\ IdlePayload

\* doc is what the end of parse_cinecanvas_xml gave: the DCSubtitle is
\* returned to the caller, whose next call starts from a new _ParserState, or
\* the ValueError leaves the call.
ParseReturned(doc) ==
    IF doc.ok
    THEN /\ parsed' = Append(parsed, doc.val)
         /\ state' = _ParserState
         /\ parse_pos' = 0
         /\ raised' = None
    ELSE /\ raised' = Some(doc.err)
         /\ UNCHANGED <<parsed, state, parse_pos>>

\* parse_cinecanvas_xml returns once expat has delivered the whole text.
ParseReturn ==
    /\ converter = None
    /\ raised = None
    /\ parse_pos = Len(xml_content)
    /\ Len(parsed) < MaxParses
    /\ \E uuid \in Uuids : ParseReturned(finalize(state, uuid))
    /\ UNCHANGED <<xml_content, converter, output_file,
                   timingVars, colorVars, fontVars, geometryVars, fontFileVars, payloadVars>>

NextParse == HandleStart \/ HandleEnd \/ HandleChar \/ ParseReturn

SpecParse == InitParse /\ [][NextParse]_vars

----------------------------------------------------------------------------
(* Claims about parsing a text more than once.                             *)

\* The text holds a SubtitleID element with something other than white space.
HasSubtitleId(xml) ==
    \E i \in 1..(Len(xml) - 1) :
        /\ xml[i].type = "start"
        /\ xml[i].name = "SubtitleID"
        /\ xml[i + 1].type = "char"
        /\ Strip(xml[i + 1].data) # <<>>

\* C19 as stated: two parses of the same text give two trees equal in every
\* field, the id included, also for a text without a SubtitleID element or
\* with an empty one.
C19_ParsesEqualInEveryField ==
    \A i, j \in 1..Len(parsed) : parsed[i] = parsed[j]

\* C19, amended: two parses of the same text give two trees equal in every
\* field but the id, and equal in the id too when the text has a SubtitleID
\* that is not empty.
C19_ParsesEqualButGeneratedId ==
    \A i, j \in 1..Len(parsed) :
        /\ [parsed[i] EXCEPT !.id = <<>>] = [parsed[j] EXCEPT !.id = <<>>]
        /\ HasSubtitleId(xml_content) => parsed[i].id = parsed[j].id

\* A text with an empty SubtitleID element and a run with a Ruby element
\* parsed twice: the second tree has the content items of the first and
\* another id.
C19_Witness ==
    /\ Len(parsed) = 2
    /\ xml_content[2].type = "start" /\ xml_content[2].name = "SubtitleID"
    /\ ~HasSubtitleId(xml_content)
    /\ parsed[1].id # parsed[2].id
    /\ parsed[1].contents = parsed[2].contents
    /\ RubyCount(parsed[1].contents[1].contents[1]) > 0

----------------------------------------------------------------------------
(* Claims about a conversion that fails.                                   *)

\* C20: when convert() (called directly or by save()) has raised, nothing
\* was written to the output file and the document of the converter holds
\* none of the events produced before the failure.
C20_NoPartialOutput ==
    (converter # None /\ raised # None) =>
        /\ output_file = None
        /\ Get(converter).events = <<>>

----------------------------------------------------------------------------
(* Claims about the tree during conversion.                                *)

\* C21: no call on the converter (convert() that succeeds, convert() that
\* raises, convert() on a done converter, save(), the setters) changes the
\* parsed DCSubtitle: its subtitles, runs, content items, fonts and timings
\* are after the call what they were before it.
C21_ConvertLeavesTree ==
    [][(converter # None /\ converter' # None) =>
          Get(converter')._subtitle = Get(converter)._subtitle]_vars

\* A convert() that raised at the second run of a subtitle after it had
\* produced the event of the first: the tree still holds both runs.
C21_Witness ==
    /\ converter # None
    /\ raised = Some("AttributeError")
    /\ Len(Get(converter).events) = 1
    /\ Len(Get(converter)._subtitle.contents[1].contents) = 2
    /\ Get(converter)._subtitle.contents[1].contents[1].contents # <<>>

----------------------------------------------------------------------------
(* Documents with a Rotate element, parsed and converted.                  *)

\* The attributes a Rotate element comes with.
RotateAttrs ==
    {<<>>,
     [Direction |-> Text_left],
     [Direction |-> Text_right],
     [Direction |-> <<"L", "e", "f", "t">>],
     [Direction |-> <<" ", "l", "e", "f", "t", " ">>],
     [Direction |-> <<"R", "I", "G", "H", "T">>],
     [Direction |-> <<"u", "p">>],
     [Direction |-> Text_none],
     [Direction |-> <<>>],
     [direction |-> Text_left],
     [DIRECTION |-> Text_right]}

\* A run "a", a Rotate element holding "R", "b".
RotateRun(text, rotate) ==
    <<StartEvent("Text", text), CharEvent(<<"a">>),
      StartEvent("Rotate", rotate), CharEvent(<<"R">>), EndEvent("Rotate"),
      CharEvent(<<"b">>), EndEvent("Text")>>

RotateDocuments ==
    {MakeRunsDocument(Header, SubtitleEvents(SubtitleAttrs_first, <<RotateRun(text, rotate)>>)) :
        text \in {Text_top_center,
                  [HAlign |-> Text_left, VAlign |-> Text_bottom, Direction |-> Text_vertical]},
        rotate \in RotateAttrs}

InitRotate ==
    /\ xml_content \in RotateDocuments
    /\ state = _ParserState
    /\ parse_pos = 0
    /\ converter = None
    /\ raised = None
    /\ parsed = <<>>
    /\ output_file = None
    /\ IdleTiming
    /\ IdleColor
    /\ IdleFont
    /\ IdleGeometry
    /\ IdleFontFile
    /\ IdlePayload

SpecRotate == InitRotate /\ [][NextConvert]_vars

----------------------------------------------------------------------------
(* Claims about Rotate.                                                    *)

\* The attributes of the Rotate start event of the document.
RotateStartAttrs ==
    xml_content[CHOOSE i \in 1..Len(xml_content) :
                    xml_content[i].type = "start" /\ xml_content[i].name = "Rotate"].attrs

\* The value of the Direction attribute, whatever the case of its name.
DirectionGiven(attrs) ==
    IF "direction" \in DOMAIN Lowered(attrs) THEN Some(Lowered(attrs)["direction"]) ELSE None

\* The direction C22 claims: the value when it is exactly left or right.
ExactDirection(attrs) ==
    IF DirectionGiven(attrs) = Some(Text_left) THEN Some("left")
    ELSE IF DirectionGiven(attrs) = Some(Text_right) THEN Some("right")
    ELSE None

\* The direction of the amended C22: the value trimmed and in lower case.
TrimmedLowerDirection(attrs) ==
    IF IsNone(DirectionGiven(attrs)) THEN None
    ELSE IF Lower(Strip(Get(DirectionGiven(attrs)))) = Text_left THEN Some("left")
    ELSE IF Lower(Strip(Get(DirectionGiven(attrs)))) = Text_right THEN Some("right")
    ELSE None

IsZRotation(ass_item) == ass_item[1] = "frz"

\* The RotatedRun of the converted document has the given direction, and the
\* line of its run has one rotation tag, of 90 degrees for left and of 270
\* degrees otherwise.
RotatedAs(self, direction) ==
    /\ self._subtitle.contents[1].contents[1].contents[2]
          = ContentRotate(<<"R">>, direction)
    /\ SelectSeq(self.events[1].text, IsZRotation)
          = <<AssValidTagZRotation(FALSE, IF direction = Some("left") THEN 90 ELSE 270)>>

\* C22 as stated: the RotatedRun's direction is left or right only when the
\* Direction attribute is exactly "left" or "right" and unset otherwise; the
\* emitter adds a 90 degree tag for left and a 270 degree tag otherwise.
C22_RotateExactDirection ==
    (converter # None /\ Get(converter)._is_done) =>
        RotatedAs(Get(converter), ExactDirection(RotateStartAttrs))

\* C22, amended: the direction is left or right when the Direction
\* attribute, trimmed of white space and put in lower case, is "left" or
\* "right", and unset otherwise; the emitter as stated.
C22_RotateTrimmedLowerDirection ==
    (converter # None /\ Get(converter)._is_done) =>
        RotatedAs(Get(converter), TrimmedLowerDirection(RotateStartAttrs))

\* A converted document whose Rotate has Direction="Left": the RotatedRun is
\* left and its line carries the 90 degree tag.
C22_Witness ==
    /\ converter # None
    /\ Get(converter)._is_done
    /\ RotateStartAttrs = [Direction |-> <<"L", "e", "f", "t">>]
    /\ Get(converter)._subtitle.contents[1].contents[1].contents[2].direction = Some("left")
    /\ \E i \in 1..Len(Get(converter).events[1].text) :
          Get(converter).events[1].text[i] = AssValidTagZRotation(FALSE, 90)

----------------------------------------------------------------------------
(* Claims about the tree builder, event by event.                          *)

\* The event expat delivers next.
PendingEvent == xml_content[parse_pos + 1]

\* A step in which a handler is called with the pending event, and the two
\* ways it ends.
Delivered ==
    /\ parse_pos < Len(xml_content)
    /\ raised = None
    /\ (parse_pos' = parse_pos + 1 \/ raised' # None)

HandlerReturned == Delivered /\ parse_pos' = parse_pos + 1

HandlerRaised == Delivered /\ raised' # None

IsEnd(event, name) == event.type = "end" /\ event.name = name

IsStart(event, name) == event.type = "start" /\ event.name = name

\* An element of that name is opened and closed in the stream.
OpenedAndClosed(name) ==
    \E i, j \in 1..Len(xml_content) :
        i < j /\ IsStart(xml_content[i], name) /\ IsEnd(xml_content[j], name)

MetadataNames == {"MovieTitle", "ReelNumber", "Language"}

\* Trimmed text that is an integer: an optional sign and digits.
IsIntegerText(text) ==
    LET t == Strip(text)
        digits == IF t # <<>> /\ t[1] \in {"+", "-"} THEN Tail(t) ELSE t
    IN  digits # <<>> /\ \A i \in 1..Len(digits) : digits[i] \in DigitSet

\* The version C23 claims for a DCSubtitle element of these attributes.
ClaimedVersion(attrs) ==
    LET declared == IF "Version" \in DOMAIN attrs THEN attrs["Version"]
                    ELSE IF "version" \in DOMAIN attrs THEN attrs["version"]
                    ELSE <<>>
    IN  IF declared = <<"1", ".", "0">> THEN "1.0"
        ELSE IF declared = <<"1", ".", "1">> THEN "1.1"
        ELSE "1.1"

\* The call of parse_cinecanvas_xml returns a DCSubtitle in this step.
ReturnsDocument == Len(parsed') = Len(parsed) + 1

\* C23: parse_cinecanvas_xml returns a Document only if a MovieTitle, a
\* ReelNumber and a Language element were each opened and closed in the
\* stream, and its version is the declared one when that is "1.0" or "1.1"
\* and "1.1" otherwise; with one of the three elements missing the end of
\* the parse raises ValueError, with a ReelNumber whose trimmed text is not
\* an integer the end of that element raises ValueError, and in both cases
\* no Document is returned.
C23_FinalizeNeedsMetadata ==
    /\ [][ReturnsDocument =>
            /\ \A name \in MetadataNames : OpenedAndClosed(name)
            /\ parsed'[Len(parsed')].version = ClaimedVersion(xml_content[1].attrs)]_vars
    /\ [][(/\ parse_pos = Len(xml_content)
           /\ raised = None
           /\ \E name \in MetadataNames : ~OpenedAndClosed(name)
           /\ <<raised, parsed>>' # <<raised, parsed>>)
          => (raised' = Some("ValueError") /\ parsed' = parsed)]_vars
    /\ [][(/\ Delivered
           /\ IsEnd(PendingEvent, "ReelNumber")
           /\ state.current_simple_tag = Some("ReelNumber")
           /\ ~IsIntegerText(state.simple_buffer))
          => (raised' = Some("ValueError") /\ parsed' = parsed)]_vars
    /\ [](raised # None => parsed = <<>>)

\* The parse of a document without a Language element has reached the end
\* of the stream and raised, and no Document was returned.
C23_Witness ==
    /\ parse_pos = Len(xml_content)
    /\ parse_pos > 0
    /\ raised = Some("ValueError")
    /\ OpenedAndClosed("MovieTitle")
    /\ OpenedAndClosed("ReelNumber")
    /\ ~OpenedAndClosed("Language")
    /\ parsed = <<>>

\* An attribute counts as given when it is there, under its name or its name
\* in lower case, with a value that is not empty (the code reads it with
\* attrs.get(name) or attrs.get(lower-case name)).
GivenAttr(attrs, name, lower) ==
    IF name \in DOMAIN attrs /\ attrs[name] # <<>> THEN Some(attrs[name])
    ELSE IF lower \in DOMAIN attrs /\ attrs[lower] # <<>> THEN Some(attrs[lower])
    ELSE None

\* The fade C24 claims: the parsed attribute when given, else 80 ms.
ClaimedFade(value) ==
    IF IsNone(value) THEN 80 ELSE to_miliseconds(from_xml(Get(value)).val)

\* C24: a Subtitle start event without a TimeIn or without a TimeOut raises
\* ValueError and leaves the builder without the subtitle it had not (its
\* state is unchanged); a Subtitle start event with both that returns has
\* opened a subtitle whose fade-in and fade-out are the parsed FadeUpTime
\* and FadeDownTime when given and 80 ms each when omitted.
C24_SubtitleNeedsTimes ==
    /\ [][(/\ Delivered
           /\ IsStart(PendingEvent, "Subtitle")
           /\ \/ IsNone(GivenAttr(PendingEvent.attrs, "TimeIn", "timein"))
              \/ IsNone(GivenAttr(PendingEvent.attrs, "TimeOut", "timeout")))
          => (raised' = Some("ValueError") /\ state' = state)]_vars
    /\ [][(/\ HandlerReturned
           /\ IsStart(PendingEvent, "Subtitle"))
          => /\ ~IsNone(state'.current_subtitle)
             /\ Get(state'.current_subtitle).contents = <<>>
             /\ to_miliseconds(Get(state'.current_subtitle).fade_in)
                   = ClaimedFade(GivenAttr(PendingEvent.attrs, "FadeUpTime", "fadeuptime"))
             /\ to_miliseconds(Get(state'.current_subtitle).fade_out)
                   = ClaimedFade(GivenAttr(PendingEvent.attrs, "FadeDownTime",
                                           "fadedowntime"))]_vars

\* The second subtitle of a document was opened with a FadeUpTime of 0 and
\* no FadeDownTime: it fades in at once and out over the default 80 ms.
C24_Witness ==
    /\ parse_pos > 0
    /\ IsStart(xml_content[parse_pos], "Subtitle")
    /\ DOMAIN xml_content[parse_pos].attrs = {"TimeIn", "TimeOut", "FadeUpTime"}
    /\ xml_content[parse_pos].attrs["FadeUpTime"] = <<"0">>
    /\ ~IsNone(state.current_subtitle)
    /\ to_miliseconds(Get(state.current_subtitle).fade_in) = 0
    /\ to_miliseconds(Get(state.current_subtitle).fade_out) = 80
    /\ Len(state.contents) = 1

(***************************************************************************)
(* C25: the ends of Text and Subtitle                                      *)
(***************************************************************************)

\* The items a run closed now would hold: the items collected so far and,
\* last, the pending plain text if there is any.
FlushedContents ==
    IF IsNone(state.current_text_contents) THEN <<>>
    ELSE IF state.plain_buffer = <<>> THEN Get(state.current_text_contents)
    ELSE Append(Get(state.current_text_contents), Content(state.plain_buffer))

\* C25: in any event sequence, a Text end delivered while no Subtitle is
\* open raises; a Text end delivered while a Subtitle is open appends exactly
\* one run, holding the collected items and the flushed plain text, to the
\* end of that subtitle's runs, and closes the run; a Subtitle end appends
\* the open subtitle to the end of the document's subtitles and closes it;
\* no other event changes the document's subtitles or the open subtitle's
\* runs, so both lists are in the order of the end events.
C25_EndsAppendInOrder ==
    /\ [][(Delivered /\ IsEnd(PendingEvent, "Text") /\ IsNone(state.current_subtitle))
          => raised' = Some("ValueError")]_vars
    /\ [][(Delivered /\ IsEnd(PendingEvent, "Text") /\ ~IsNone(state.current_subtitle))
          => /\ HandlerReturned
             /\ ~IsNone(state'.current_subtitle)
             /\ Len(Get(state'.current_subtitle).contents)
                    = Len(Get(state.current_subtitle).contents) + 1
             /\ Front(Get(state'.current_subtitle).contents)
                    = Get(state.current_subtitle).contents
             /\ Last(Get(state'.current_subtitle).contents).contents = FlushedContents
             /\ IsNone(state'.current_text_contents)
             /\ IsNone(state'.current_text_attrs)
             /\ state'.plain_buffer = <<>>
             /\ state'.contents = state.contents]_vars
    /\ [][(Delivered /\ IsEnd(PendingEvent, "Subtitle"))
          => /\ HandlerReturned
             /\ IsNone(state'.current_subtitle)
             /\ state'.contents =
                    IF IsNone(state.current_subtitle) THEN state.contents
                    ELSE Append(state.contents, Get(state.current_subtitle))]_vars
    /\ [][(HandlerReturned /\ ~IsEnd(PendingEvent, "Subtitle"))
          => state'.contents = state.contents]_vars
    /\ [][(HandlerReturned /\ ~IsEnd(PendingEvent, "Subtitle")
            /\ ~IsEnd(PendingEvent, "Text") /\ ~IsStart(PendingEvent, "Subtitle"))
          => state'.current_subtitle = state.current_subtitle]_vars

\* The second Text of a subtitle has just ended: the subtitle holds two runs
\* with different items, the first one first, and no run is open.
C25_Witness ==
    /\ parse_pos > 0
    /\ IsEnd(xml_content[parse_pos], "Text")
    /\ ~IsNone(state.current_subtitle)
    /\ Len(Get(state.current_subtitle).contents) = 2
    /\ Get(state.current_subtitle).contents[1].contents
         # Get(state.current_subtitle).contents[2].contents
    /\ Get(state.current_subtitle).contents[2].contents # <<>>
    /\ IsNone(state.current_text_contents)

(***************************************************************************)
(* C26: FontFile.get_font loads the font once                              *)
(***************************************************************************)

MaxGetFontCalls == 4

InitFontFile ==
    /\ font_file \in {FontFile(<<"f">>, uri) : uri \in FontUris}
    /\ font_calls = <<>>
    /\ IdleTiming
    /\ IdleColor
    /\ IdleFont
    /\ IdleConvert
    /\ IdleGeometry
    /\ IdlePayload

\* One call font_file.get_font(root_dir); a caller may go on after a call
\* that raised.
GetFontCalled(root_dir, r) ==
    /\ font_file' = r.self
    /\ font_calls' = Append(font_calls, [root_dir |-> root_dir, loader |-> r.loader,
                                         ret |-> r.ret])
    /\ UNCHANGED <<timingVars, colorVars, fontVars, convertVars, geometryVars, payloadVars>>

GetFont ==
    /\ Len(font_calls) < MaxGetFontCalls
    /\ \E root_dir \in RootDirs : GetFontCalled(root_dir, get_font(font_file, root_dir))

NextFontFile == GetFont

SpecFontFile == InitFontFile /\ [][NextFontFile]_vars

Succeeded(i) == font_calls[i].ret.ok

UsedLoader(i) == font_calls[i].loader # <<>>

BufferNames == {"simple", "ruby_text", "ruby_base", "hgroup", "rotate", "inline", "plain"}

\* The text each buffer of a parser state holds; an inactive buffer holds none.
BufferText(st, buffer) ==
    IF buffer = "simple" THEN st.simple_buffer
    ELSE IF buffer = "ruby_text"
         THEN (IF IsNone(st.ruby_text_buffer) THEN <<>> ELSE Get(st.ruby_text_buffer))
    ELSE IF buffer = "ruby_base"
         THEN (IF IsNone(st.ruby_base_buffer) THEN <<>> ELSE Get(st.ruby_base_buffer))
    ELSE IF buffer = "hgroup"
         THEN (IF IsNone(st.hgroup_buffer) THEN <<>> ELSE Get(st.hgroup_buffer))
    ELSE IF buffer = "rotate"
         THEN (IF IsNone(st.rotate_buffer) THEN <<>> ELSE Get(st.rotate_buffer))
    ELSE IF buffer = "inline"
         THEN (IF st.inline_font_buffers = <<>> THEN <<>> ELSE Last(st.inline_font_buffers))
    ELSE st.plain_buffer

\* The buffer the claim gives the next character data to, "dropped" if none.
ClaimedBuffer ==
    IF ~IsNone(state.current_simple_tag) THEN "simple"
    ELSE IF IsNone(state.current_text_contents) THEN "dropped"
    ELSE IF ~IsNone(state.ruby_text_buffer) THEN "ruby_text"
    ELSE IF ~IsNone(state.ruby_base_buffer) THEN "ruby_base"
    ELSE IF ~IsNone(state.hgroup_buffer) THEN "hgroup"
    ELSE IF ~IsNone(state.rotate_buffer) THEN "rotate"
    ELSE IF state.inline_font_stack # <<>> THEN "inline"
    ELSE "plain"

\* The parser state but for its buffers.
WithoutBuffers(st) ==
    [st EXCEPT !.simple_buffer = <<>>, !.ruby_text_buffer = None, !.ruby_base_buffer = None,
               !.hgroup_buffer = None, !.rotate_buffer = None,
               !.inline_font_buffers = <<>>, !.plain_buffer = <<>>]

Active(st) ==
    <<IsNone(st.ruby_text_buffer), IsNone(st.ruby_base_buffer), IsNone(st.hgroup_buffer),
      IsNone(st.rotate_buffer), Len(st.inline_font_buffers)>>

\* C27: every character-data event returns and appends its data to exactly
\* one buffer, the first of: the simple-tag buffer if a simple tag is open;
\* else, if a Text run is open, the ruby-text buffer if active, the ruby-base
\* buffer if active, the HGroup buffer if active, the Rotate buffer if active,
\* the innermost inline-font buffer if a Font is open, the plain buffer.
\* Every other buffer and everything else in the parser state stays as it
\* is; with no simple tag and no Text run open the state does not change.
C27_CharGoesToOneBuffer ==
    [][(Delivered /\ PendingEvent.type = "char")
        => /\ HandlerReturned
           /\ ClaimedBuffer = "dropped" => state' = state
           /\ \A buffer \in BufferNames :
                 BufferText(state', buffer) =
                    IF buffer = ClaimedBuffer
                    THEN BufferText(state, buffer) \o PendingEvent.data
                    ELSE BufferText(state, buffer)
           /\ WithoutBuffers(state') = WithoutBuffers(state)
           /\ Active(state') = Active(state)
           /\ \A k \in 1..(Len(state.inline_font_buffers) - 1) :
                 state'.inline_font_buffers[k] = state.inline_font_buffers[k]]_vars

\* Character data has just arrived inside an Rt inside a Ruby inside an
\* HGroup inside a Rotate inside an inline Font: all five buffers are
\* active and the data went to the ruby-text buffer alone.
C27_Witness ==
    /\ parse_pos > 0
    /\ xml_content[parse_pos].type = "char"
    /\ xml_content[parse_pos].data = <<"t">>
    /\ IsNone(state.current_simple_tag)
    /\ state.ruby_text_buffer = Some(<<"t">>)
    /\ state.ruby_base_buffer = Some(<<"b">>)
    /\ state.hgroup_buffer = Some(<<"h">>)
    /\ state.rotate_buffer = Some(<<"r">>)
    /\ state.inline_font_buffers = <<<<"f">>>>
    /\ state.plain_buffer = <<>>

(***************************************************************************)
(* C28: the item of a Ruby element                                         *)
(***************************************************************************)

\* The pending event closes a Ruby element that was opened inside the Text
\* run that is open now.
RubyOpenInRun ==
    /\ ~IsNone(state.current_text_contents)
    /\ \E i \in 1..parse_pos :
          /\ IsStart(xml_content[i], "Ruby")
          /\ \A k \in (i + 1)..parse_pos :
                /\ ~IsEnd(xml_content[k], "Ruby")
                /\ ~IsStart(xml_content[k], "Text")
                /\ ~IsEnd(xml_content[k], "Text")

\* The Ruby being closed has an Rt child.
RubyHasRt ==
    \E i \in 1..parse_pos :
       /\ IsStart(xml_content[i], "Rt")
       /\ \A k \in (i + 1)..parse_pos : ~IsStart(xml_content[k], "Ruby")

RubyItemAttrs(item) ==
    [size |-> item.size, position |-> item.position, offset |-> item.offset,
     spacing |-> item.spacing, aspect_adjust |-> item.aspect_adjust]

DefaultRubyAttrs ==
    [size |-> DefaultRubySize, position |-> "before", offset |-> 0, spacing |-> 0,
     aspect_adjust |-> DefaultRubyAspect]

\* C28: the end of a Ruby element that was opened inside the open Text run
\* returns and appends exactly one ContentWithRuby item to the run, whose
\* base is the text captured for Rb, whose ruby text is the text captured for
\* Rt, empty when there is no Rt, and whose size, position, offset, spacing
\* and aspect are those of the Rt attributes, or the defaults.
C28_RubyAppendsAnnotation ==
    [][(Delivered /\ IsEnd(PendingEvent, "Ruby") /\ RubyOpenInRun)
        => /\ HandlerReturned
           /\ ~IsNone(state'.current_text_contents)
           /\ Len(Get(state'.current_text_contents))
                = Len(Get(state.current_text_contents)) + 1
           /\ Front(Get(state'.current_text_contents)) = Get(state.current_text_contents)
           /\ Last(Get(state'.current_text_contents)).kind = "ContentWithRuby"
           /\ Last(Get(state'.current_text_contents)).base = BufferText(state, "ruby_base")
           /\ Last(Get(state'.current_text_contents)).ruby = BufferText(state, "ruby_text")
           /\ RubyItemAttrs(Last(Get(state'.current_text_contents)))
                = IF RubyHasRt THEN Get(state.current_ruby_attrs) ELSE DefaultRubyAttrs]_vars

\* The same for the Ruby elements that have an Rt child.
C28_RubyWithRtAppendsAnnotation ==
    [][(Delivered /\ IsEnd(PendingEvent, "Ruby") /\ RubyOpenInRun /\ RubyHasRt)
        => /\ HandlerReturned
           /\ ~IsNone(state'.current_text_contents)
           /\ Len(Get(state'.current_text_contents))
                = Len(Get(state.current_text_contents)) + 1
           /\ Front(Get(state'.current_text_contents)) = Get(state.current_text_contents)
           /\ Last(Get(state'.current_text_contents)).kind = "ContentWithRuby"
           /\ Last(Get(state'.current_text_contents)).base = BufferText(state, "ruby_base")
           /\ Last(Get(state'.current_text_contents)).ruby = BufferText(state, "ruby_text")
           /\ RubyItemAttrs(Last(Get(state'.current_text_contents)))
                = Get(state.current_ruby_attrs)]_vars

(***************************************************************************)
(* C29: no Ruby capture survives the end of the Ruby                       *)
(***************************************************************************)

RubyInactive(st) ==
    /\ IsNone(st.ruby_base_buffer)
    /\ IsNone(st.ruby_text_buffer)
    /\ IsNone(st.current_ruby_attrs)

\* C29: once the end of a Ruby element, with or without Rb and Rt children,
\* or the end of a Text has been handled, the ruby-base buffer, the ruby-text
\* buffer and the ruby attributes are all inactive, and the character data
\* delivered outside a Ruby goes to no ruby buffer.
C29_RubyStateEndsWithRuby ==
    /\ [](((parse_pos > 0 /\ raised = None)
           /\ (IsEnd(xml_content[parse_pos], "Ruby") \/ IsEnd(xml_content[parse_pos], "Text")))
          => RubyInactive(state))
    /\ [][(Delivered /\ PendingEvent.type = "char" /\ ~RubyOpenInRun)
          => BufferText(state', "ruby_base") = BufferText(state, "ruby_base")
             /\ BufferText(state', "ruby_text") = BufferText(state, "ruby_text")]_vars

\* The same for the Ruby elements that have an Rt child, as long as the
\* document has no Ruby without one.
RubyAlwaysWithRt ==
    \A i \in 1..Len(xml_content) :
        IsStart(xml_content[i], "Ruby")
            => \E j \in (i + 1)..Len(xml_content) :
                  /\ IsStart(xml_content[j], "Rt")
                  /\ \A k \in (i + 1)..j : ~IsEnd(xml_content[k], "Ruby")

C29_RubyWithRtStateEnds ==
    RubyAlwaysWithRt =>
        (((parse_pos > 0 /\ raised = None)
          /\ (IsEnd(xml_content[parse_pos], "Ruby") \/ IsEnd(xml_content[parse_pos], "Text")))
         => RubyInactive(state))

(***************************************************************************)
(* C30: the items of a run keep the document order                         *)
(***************************************************************************)

\* The text an item holds.
ItemText(item) ==
    IF item.kind = "Content" THEN item.text
    ELSE IF item.kind = "ContentWithFont" THEN item.content
    ELSE IF item.kind = "ContentWithRuby" THEN item.base \o item.ruby
    ELSE IF item.kind = "ContentSpacing" THEN <<>>
    ELSE item.text

RECURSIVE ItemsText(_)
ItemsText(items) ==
    IF items = <<>> THEN <<>> ELSE ItemText(items[1]) \o ItemsText(Tail(items))

\* The character data of a sequence of events, in the order of the events.
RECURSIVE EventsText(_)
EventsText(events) ==
    IF events = <<>> THEN <<>>
    ELSE (IF events[1].type = "char" THEN events[1].data ELSE <<>>)
         \o EventsText(Tail(events))

InlineKind ==
    [Font |-> "ContentWithFont", Ruby |-> "ContentWithRuby", Space |-> "ContentSpacing",
     HGroup |-> "ContentHGroup", Rotate |-> "ContentRotate"]

\* The kinds of the items the markup of a sequence of events asks for, in the
\* order in which the markup starts.
RECURSIVE EventsKinds(_)
EventsKinds(events) ==
    IF events = <<>> THEN <<>>
    ELSE (IF events[1].type = "start" /\ events[1].name \in DOMAIN InlineKind
          THEN <<InlineKind[events[1].name]>> ELSE <<>>)
         \o EventsKinds(Tail(events))

\* The kinds of the items that come from markup.
RECURSIVE ItemsKinds(_)
ItemsKinds(items) ==
    IF items = <<>> THEN <<>>
    ELSE (IF items[1].kind = "Content" THEN <<>> ELSE <<items[1].kind>>)
         \o ItemsKinds(Tail(items))

\* The Text element that has just ended: where it started, and its events.
RunStart ==
    CHOOSE i \in 1..parse_pos :
        /\ IsStart(xml_content[i], "Text")
        /\ \A k \in (i + 1)..parse_pos : ~IsStart(xml_content[k], "Text")

RunEvents == SubSeq(xml_content, RunStart + 1, parse_pos - 1)

InlineNames == {"Font", "Ruby", "Rb", "Rt", "Space", "HGroup", "Rotate"}

\* A Text has just ended that held only plain text and inline markup.
InlineRunEnded ==
    /\ parse_pos > 0
    /\ raised = None
    /\ IsEnd(xml_content[parse_pos], "Text")
    /\ \E i \in 1..parse_pos : IsStart(xml_content[i], "Text")
    /\ \A k \in (RunStart + 1)..(parse_pos - 1) :
          xml_content[k].type = "char" \/ xml_content[k].name \in InlineNames
    /\ ~IsNone(state.current_subtitle)
    /\ Get(state.current_subtitle).contents # <<>>

FinishedRun == Last(Get(state.current_subtitle).contents)

\* C30: the items of a finished run of plain text and properly nested inline
\* markup are in document order and lose no text: the items that come from
\* markup are in the order in which their markup starts, and the texts of the
\* items, concatenated, are the character data of the run in document order.
C30_ItemsInDocumentOrder ==
    InlineRunEnded
        => /\ ItemsKinds(FinishedRun.contents) = EventsKinds(RunEvents)
           /\ ItemsText(FinishedRun.contents) = EventsText(RunEvents)

\* No run of a document in which every Ruby has an Rt child ends with its
\* markup items in order and its text out of order. (Font nested in Font
\* refutes it.)
C30_TextOutOfOrder ==
    ~(InlineRunEnded /\ RubyAlwaysWithRt
        /\ ItemsText(FinishedRun.contents) # EventsText(RunEvents)
        /\ ItemsKinds(FinishedRun.contents) = EventsKinds(RunEvents))

\* The same for the runs in which no Font holds another element.
NoMarkupInFont ==
    \A i \in (RunStart + 1)..(parse_pos - 1) :
        IsStart(xml_content[i], "Font")
            => (xml_content[i + 1].type = "char" /\ IsEnd(xml_content[i + 2], "Font"))
               \/ IsEnd(xml_content[i + 1], "Font")

NoMarkupInGroup ==
    \A i \in (RunStart + 1)..(parse_pos - 1) :
        (IsStart(xml_content[i], "HGroup") \/ IsStart(xml_content[i], "Rotate"))
            => xml_content[i + 1].type # "start"

C30_FlatItemsInDocumentOrder ==
    (InlineRunEnded /\ RubyAlwaysWithRt /\ NoMarkupInFont /\ NoMarkupInGroup)
        => /\ ItemsKinds(FinishedRun.contents) = EventsKinds(RunEvents)
           /\ ItemsText(FinishedRun.contents) = EventsText(RunEvents)

(***************************************************************************)
(* C31: the scopes of Font                                                 *)
(***************************************************************************)

\* The parser state but for what a Font event may touch.
WithoutFontScopes(st) ==
    [st EXCEPT !.inline_font_stack = <<>>, !.inline_font_buffers = <<>>,
               !.current_font_stack = <<>>, !.current_text_contents = None,
               !.plain_buffer = <<>>]

\* Every element of the document is closed, innermost first: open is the
\* names of the elements open before event i.
RECURSIVE NestedFrom(_, _)
NestedFrom(i, open) ==
    IF i > Len(xml_content) THEN open = <<>>
    ELSE IF xml_content[i].type = "start"
         THEN NestedFrom(i + 1, Append(open, xml_content[i].name))
    ELSE IF xml_content[i].type = "end"
         THEN /\ open # <<>>
              /\ Last(open) = xml_content[i].name
              /\ NestedFrom(i + 1, Front(open))
    ELSE NestedFrom(i + 1, open)

ProperlyNested == NestedFrom(1, <<>>)

\* No Text element starts inside a Text element.
NoTextInText ==
    \A k \in 1..Len(xml_content) :
        IsStart(xml_content[k], "Text")
            => Cardinality({i \in 1..(k - 1) : IsStart(xml_content[i], "Text")})
                 = Cardinality({i \in 1..(k - 1) : IsEnd(xml_content[i], "Text")})

StreamEnded == parse_pos = Len(xml_content) /\ raised = None

FontStartScopes ==
    [][(HandlerReturned /\ IsStart(PendingEvent, "Font"))
        => /\ WithoutFontScopes(state') = WithoutFontScopes(state)
           /\ IF ~IsNone(state.current_text_contents)
              THEN /\ state'.current_text_contents = Some(FlushedContents)
                   /\ state'.plain_buffer = <<>>
                   /\ Len(state'.inline_font_stack) = Len(state.inline_font_stack) + 1
                   /\ Front(state'.inline_font_stack) = state.inline_font_stack
                   /\ Last(state'.inline_font_stack).cls = "FontOverride"
                   /\ state'.inline_font_buffers = Append(state.inline_font_buffers, <<>>)
                   /\ state'.current_font_stack = state.current_font_stack
              ELSE /\ Len(state'.current_font_stack) = Len(state.current_font_stack) + 1
                   /\ Front(state'.current_font_stack) = state.current_font_stack
                   /\ Last(state'.current_font_stack).cls = "Font"
                   /\ state'.inline_font_stack = state.inline_font_stack
                   /\ state'.inline_font_buffers = state.inline_font_buffers
                   /\ state'.current_text_contents = state.current_text_contents
                   /\ state'.plain_buffer = state.plain_buffer]_vars

FontEndScopes ==
    [][(Delivered /\ IsEnd(PendingEvent, "Font"))
        => /\ HandlerReturned
           /\ WithoutFontScopes(state') = WithoutFontScopes(state)
           /\ state'.plain_buffer = state.plain_buffer
           /\ IF ~IsNone(state.current_text_contents) /\ state.inline_font_stack # <<>>
              THEN /\ state'.inline_font_stack = Front(state.inline_font_stack)
                   /\ state'.inline_font_buffers = Front(state.inline_font_buffers)
                   /\ state'.current_text_contents =
                        Some(Append(Get(state.current_text_contents),
                                    ContentWithFont(Last(state.inline_font_buffers),
                                                    Last(state.inline_font_stack))))
                   /\ state'.current_font_stack = state.current_font_stack
              ELSE /\ state'.current_font_stack =
                        IF state.current_font_stack # <<>> THEN Front(state.current_font_stack)
                        ELSE <<>>
                   /\ state'.inline_font_stack = state.inline_font_stack
                   /\ state'.inline_font_buffers = state.inline_font_buffers
                   /\ state'.current_text_contents = state.current_text_contents]_vars

ScopesSameDepth == Len(state.inline_font_stack) = Len(state.inline_font_buffers)

ScopesEmpty == state.inline_font_stack = <<>> /\ state.current_font_stack = <<>>

\* C31 as stated: a Font start with a Text run open flushes the plain text
\* and pushes one inline override with an empty buffer, otherwise pushes one
\* root Font; a Font end with a run open and an inline scope pops it and
\* appends one ContentWithFont with its captured text, otherwise pops the
\* root stack if it is not empty; the inline stack and the buffer stack have
\* the same depth in every state; and after every properly nested event
\* stream the inline stack and the root stack are empty.
C31_FontScopes ==
    /\ FontStartScopes
    /\ FontEndScopes
    /\ []ScopesSameDepth
    /\ []((StreamEnded /\ ProperlyNested) => ScopesEmpty)

\* The same, the last part for the properly nested event streams in which
\* no Text element starts inside a Text element.
C31_FontScopesOfSeparateTexts ==
    /\ FontStartScopes
    /\ FontEndScopes
    /\ []ScopesSameDepth
    /\ []((StreamEnded /\ ProperlyNested /\ NoTextInText) => ScopesEmpty)

(***************************************************************************)
(* C32: the wrapping font of a subtitle                                    *)
(***************************************************************************)

\* Every attribute of a root Font that the element does not set has the
\* fixed default, whatever the Fonts around it set.
UnsetTakeDefaults(font, low) ==
    /\ "color" \notin DOMAIN low => font.color = Some(white)
    /\ "effect" \notin DOMAIN low => font.effect = Some("shadow")
    /\ "effectcolor" \notin DOMAIN low => font.effect_color = Some(black)
    /\ "italic" \notin DOMAIN low => font.italic = Some(FALSE)
    /\ "weight" \notin DOMAIN low => font.weight = Some("normal")
    /\ "script" \notin DOMAIN low => font.script = Some("normal")
    /\ "size" \notin DOMAIN low => font.size = Some(DefaultSize)
    /\ "aspectadjust" \notin DOMAIN low => font.aspect_adjust = Some(DefaultAspect)
    /\ "underlined" \notin DOMAIN low => font.underlined = Some(FALSE)
    /\ "spacing" \notin DOMAIN low => font.spacing = Some(DefaultSpacing)

\* C32: the wrapping font of a subtitle is set by its Subtitle start, to the
\* top of the root font stack, or to none when the stack is empty; no event
\* other than a Subtitle start changes the wrapping font of the open
\* subtitle, and the subtitle enters the document with it; a root Font takes
\* the fixed defaults for the attributes it does not set, also when it is
\* nested in a root Font that sets them.
C32_WrappingFontFixedAtStart ==
    /\ [][(HandlerReturned /\ IsStart(PendingEvent, "Subtitle"))
          => Get(state'.current_subtitle).font =
                IF state.current_font_stack = <<>> THEN None
                ELSE Some(Last(state.current_font_stack))]_vars
    /\ [][(HandlerReturned /\ ~IsStart(PendingEvent, "Subtitle")
            /\ ~IsNone(state.current_subtitle))
          => IF IsNone(state'.current_subtitle)
             THEN /\ IsEnd(PendingEvent, "Subtitle")
                  /\ Last(state'.contents).font = Get(state.current_subtitle).font
             ELSE Get(state'.current_subtitle).font = Get(state.current_subtitle).font]_vars
    /\ [][(HandlerReturned /\ IsStart(PendingEvent, "Font")
            /\ IsNone(state.current_text_contents))
          => UnsetTakeDefaults(Last(state'.current_font_stack),
                               Lowered(PendingEvent.attrs))]_vars

\* A run has ended in a subtitle that started under the root Font H nested
\* in a root Font that sets colour, size and italic: the wrapping font is H
\* with the default colour, size and upright style, and G is still on the
\* stack below it.
C32_Witness ==
    /\ parse_pos > 0
    /\ raised = None
    /\ IsEnd(xml_content[parse_pos], "Text")
    /\ Len(state.current_font_stack) = 2
    /\ state.current_font_stack[1].font = Some(<<"G">>)
    /\ state.current_font_stack[1].size = Some(30)
    /\ ~IsNone(state.current_subtitle)
    /\ Get(state.current_subtitle).font = Some(state.current_font_stack[2])
    /\ Get(Get(state.current_subtitle).font).font = Some(<<"H">>)
    /\ Get(Get(state.current_subtitle).font).size = Some(DefaultSize)
    /\ Get(Get(state.current_subtitle).font).color = Some(white)
    /\ Get(Get(state.current_subtitle).font).italic = Some(FALSE)

(***************************************************************************)
(* C33: the inline elements outside a Text                                 *)
(***************************************************************************)

TextOnlyNames == {"Ruby", "Rb", "Rt", "Space", "HGroup", "Rotate"}

\* The pending event is the start or the end of an element that means
\* something only in a Text, and no Text run is open.
TextOnlyEventOutsideText ==
    /\ Delivered
    /\ PendingEvent.type \in {"start", "end"}
    /\ PendingEvent.name \in TextOnlyNames
    /\ IsNone(state.current_text_contents)

\* C33: in any event sequence, the start or the end of a Ruby, Rb, Rt,
\* Space, HGroup or Rotate delivered while no Text run is open raises
\* nothing and leaves the whole parser state as it is.
C33_IgnoredOutsideText ==
    [][TextOnlyEventOutsideText => (HandlerReturned /\ state' = state)]_vars

\* The same for the events delivered while no Ruby capture is left over.
C33_IgnoredOutsideTextAndRuby ==
    [][(TextOnlyEventOutsideText /\ RubyInactive(state))
        => (HandlerReturned /\ state' = state)]_vars

\* No Rt start delivered outside a Text raises. (The Rt with a size that
\* is no number, after a Ruby without Rt, refutes it.)
C33_StrayRtRaises ==
    ~(/\ raised = Some("ValueError")
      /\ parse_pos < Len(xml_content)
      /\ IsStart(xml_content[parse_pos + 1], "Rt")
      /\ IsNone(state.current_text_contents))

(***************************************************************************)
(* C34: the payload of make_directional_text                               *)
(***************************************************************************)

MaxContentLen == 4

ContentChars == {"a", "b", "\n"}

Directions == {"horizontal", "vertical"}

InitPayload ==
    /\ directional_args = <<>>
    /\ directional_result = NotRun
    /\ IdleTiming
    /\ IdleColor
    /\ IdleFont
    /\ IdleConvert
    /\ IdleGeometry
    /\ IdleFontFile

\* One call make_directional_text(content, direction).
MakeDirectionalText ==
    /\ \E content \in SeqsUpTo(ContentChars, MaxContentLen), direction \in Directions :
          /\ directional_args' = <<content, direction>>
          /\ directional_result' = Ok(make_directional_text(content, direction))
    /\ UNCHANGED <<timingVars, colorVars, fontVars, convertVars, geometryVars, fontFileVars>>

NextPayload == MakeDirectionalText

SpecPayload == InitPayload /\ [][NextPayload]_vars

\* The characters of an AssText.
PayloadChars == directional_result.val[2]

\* Position i of the payload is the backslash of a forced break.
BreakAt(payload, i) ==
    i < Len(payload) /\ payload[i] = "\\" /\ payload[i + 1] = "N"

\* The characters of a payload that belong to no forced break, in order. A
\* forced break is a backslash with the N after it.
RECURSIVE OutsideBreaks(_)
OutsideBreaks(payload) ==
    IF payload = <<>> THEN <<>>
    ELSE IF BreakAt(payload, 1) THEN OutsideBreaks(SubSeq(payload, 3, Len(payload)))
    ELSE <<payload[1]>> \o OutsideBreaks(Tail(payload))

RECURSIVE CountBreaks(_)
CountBreaks(payload) ==
    IF payload = <<>> THEN 0
    ELSE IF BreakAt(payload, 1) THEN 1 + CountBreaks(SubSeq(payload, 3, Len(payload)))
    ELSE CountBreaks(Tail(payload))

\* The characters of a content that are no newline, in order.
WithoutNewlines(content) == SelectSeq(content, LAMBDA c : c # "\n")

Newlines(content) == Len(content) - Len(WithoutNewlines(content))

\* Every character outside the forced breaks has a forced break after it.
EachOnItsOwnLine(payload) ==
    \A i \in 1..Len(payload) :
        (payload[i] \notin {"\\", "N"}) => BreakAt(payload, i + 1)

\* C34: in both directions the characters of the payload outside its forced
\* breaks are the characters of the content that are no newline, in order,
\* with no backslash and no N of their own; in horizontal direction there is
\* one forced break for each newline; in vertical direction every character
\* has a forced break after it, and there is one forced break for each
\* character and at most one more for each newline.
C34_NewlinesBecomeBreaks ==
    directional_result # NotRun
        => /\ OutsideBreaks(PayloadChars) = WithoutNewlines(directional_args[1])
           /\ directional_args[2] = "horizontal"
                => CountBreaks(PayloadChars) = Newlines(directional_args[1])
           /\ directional_args[2] = "vertical"
                => /\ EachOnItsOwnLine(PayloadChars)
                   /\ CountBreaks(PayloadChars) >= Len(directional_args[1])
                   /\ CountBreaks(PayloadChars)
                        <= Len(directional_args[1]) + Newlines(directional_args[1])

\* The same for the horizontal direction and for the contents of one line.
C34_BreaksWithoutVerticalNewline ==
    (directional_result # NotRun
        /\ (directional_args[2] = "horizontal" \/ Newlines(directional_args[1]) = 0))
        => /\ OutsideBreaks(PayloadChars) = WithoutNewlines(directional_args[1])
           /\ directional_args[2] = "horizontal"
                => CountBreaks(PayloadChars) = Newlines(directional_args[1])
           /\ directional_args[2] = "vertical"
                => /\ EachOnItsOwnLine(PayloadChars)
                   /\ CountBreaks(PayloadChars) = Len(directional_args[1])

(***************************************************************************)
(* C35: the side of the ruby overlay                                       *)
(***************************************************************************)

\* The \pos tag of an event.
PosTag(event) == event.text[CHOOSE k \in 1..Len(event.text) : event.text[k][1] = "pos"]

\* The primary event of the run that overlay event i belongs to.
PrimaryBefore(events, i) ==
    CHOOSE p \in 1..(i - 1) :
        IsPrimary(events[p]) /\ \A q \in (p + 1)..(i - 1) : IsOverlay(events[q])

\* The run and the ContentWithRuby item that overlay event i was made for.
OverlayRun(self, i) == SubtitleRuns(self._subtitle.contents)[RunNumber(self.events, i)].run

OverlayItem(self, i) ==
    SelectSeq(OverlayRun(self, i).contents, IsRuby)[i - PrimaryBefore(self.events, i)]

\* The overlay is displaced from the position of its run to the side the
\* position of the annotation names.
OnClaimedSide(overlay, primary, direction, position) ==
    IF direction = "horizontal"
    THEN IF position = "before" THEN PosTag(overlay)[3] < PosTag(primary)[3]
         ELSE PosTag(overlay)[3] > PosTag(primary)[3]
    ELSE IF position = "before" THEN PosTag(overlay)[2] > PosTag(primary)[2]
         ELSE PosTag(overlay)[2] < PosTag(primary)[2]

\* C35: in the events of a convert() with ruby processing enabled, every
\* overlay is displaced from the position of its run's primary event to the
\* side its annotation names: in a horizontal run upwards (smaller y) for
\* position before and downwards for after, in a vertical run towards +x
\* for before and towards -x for after.
C35_RubyPositionHonoured ==
    (converter # None /\ Get(converter)._is_done) =>
        \A i \in 1..Len(Get(converter).events) :
            IsOverlay(Get(converter).events[i]) =>
                OnClaimedSide(Get(converter).events[i],
                              Get(converter).events[PrimaryBefore(Get(converter).events, i)],
                              OverlayRun(Get(converter), i).direction,
                              OverlayItem(Get(converter), i).position)

\* The same for the annotations whose position is before.
C35_RubyBeforeHonoured ==
    (converter # None /\ Get(converter)._is_done) =>
        \A i \in 1..Len(Get(converter).events) :
            (IsOverlay(Get(converter).events[i])
                /\ OverlayItem(Get(converter), i).position = "before") =>
                OnClaimedSide(Get(converter).events[i],
                              Get(converter).events[PrimaryBefore(Get(converter).events, i)],
                              OverlayRun(Get(converter), i).direction, "before")

(***************************************************************************)
(* C36: the style of the primary event                                     *)
(***************************************************************************)

\* The face an item is shown in under the wrapping font root: the face of
\* its own Font element if it names one, else the face of the wrapping font.
ResolvedFace(item, root) ==
    IF item.kind = "ContentWithFont" /\ ~IsNone(item.font.font) THEN Get(item.font.font)
    ELSE Get(root.font)

FontNameTags(tags) == SelectSeq(tags, LAMBDA tag : tag[1] = "fn")

\* The primary event of a run under the wrapping font root is as C36 says.
StyledByFirstItem(event, run, root) ==
    /\ run.contents # <<>> => event.style = Some(ResolvedFace(run.contents[1], root))
    /\ \A k \in 1..Len(run.contents) :
          FontNameTags(TagList(event.text, k + 1)) =
              IF ResolvedFace(run.contents[k], root) # Get(root.font)
              THEN <<AssValidTagFontName(ResolvedFace(run.contents[k], root))>>
              ELSE <<>>

\* C36: after a convert() that succeeded there is one primary event for each
\* run; its style is the resolved face of the first content item of the run,
\* whatever the later items are; and the tags of each item hold a font-name
\* tag, naming the item's resolved face, exactly when that face differs from
\* the face of the wrapping font.
C36_StyleOfFirstItem ==
    (converter # None /\ Get(converter)._is_done) =>
        /\ Len(PrimaryEvents(Get(converter).events))
             = Len(SubtitleRuns(Get(converter)._subtitle.contents))
        /\ \A n \in 1..Len(SubtitleRuns(Get(converter)._subtitle.contents)) :
              ~IsNone(SubtitleRuns(Get(converter)._subtitle.contents)[n].subtitle.font)
                => StyledByFirstItem(
                      PrimaryEvents(Get(converter).events)[n],
                      SubtitleRuns(Get(converter)._subtitle.contents)[n].run,
                      Get(SubtitleRuns(Get(converter)._subtitle.contents)[n].subtitle.font))

\* Under a wrapping font every primary event of a convert() that succeeded
\* has the face of the wrapping font as its style and no font-name tag in
\* the tags of any item, whatever faces the items' own Font elements name.
C36_StyleOfWrappingFont ==
    (converter # None /\ Get(converter)._is_done) =>
        /\ Len(PrimaryEvents(Get(converter).events))
             = Len(SubtitleRuns(Get(converter)._subtitle.contents))
        /\ \A n \in 1..Len(SubtitleRuns(Get(converter)._subtitle.contents)) :
              ~IsNone(SubtitleRuns(Get(converter)._subtitle.contents)[n].subtitle.font)
                => /\ SubtitleRuns(Get(converter)._subtitle.contents)[n].run.contents # <<>>
                        => PrimaryEvents(Get(converter).events)[n].style
                             = SubtitleRuns(Get(converter)._subtitle.contents)[n].subtitle.font[1].font
                   /\ \A k \in 1..Len(SubtitleRuns(Get(converter)._subtitle.contents)[n].run.contents) :
                         FontNameTags(TagList(PrimaryEvents(Get(converter).events)[n].text, k + 1)) = <<>>

\* No convert() that succeeded leaves an event whose style is the face G
\* under no wrapping font. (Such a state is reachable, which refutes it.)
C36_NoStyleWithoutWrappingFont ==
    ~ /\ converter # None
      /\ Get(converter)._is_done
      /\ Len(Get(converter).events) > 0
      /\ IsNone(Get(converter)._subtitle.contents[1].font)
      /\ Get(converter).events[1].style = Some(<<"G">>)

====
